---- MODULE Spec2Model ----
(***************************************************************************)
(* The verification-gated Checker of gokismet (src/gokismet.go).           *)
(*                                                                         *)
(* src/gokismet.go holds two revisions of the Checker:                     *)
(*   revision "A", lines 1-576:    Check / SubmitHam / SubmitSpam,         *)
(*                                 Checker.execute, APIError, AuthError;   *)
(*   revision "B", lines 578-1105: Check / ReportHam / ReportSpam,         *)
(*                                 Checker.call, ValError, KeyError.       *)
(* A Checker is built from one of them (variable rev) and keeps it.        *)
(* src/api.go holds the older API type (VerifyKey / CheckComment /         *)
(* SubmitSpam / SubmitHam over API.execute), modelled by SpecAPI.          *)
(* src/comment.go holds the Comment type built on that API, modelled by    *)
(* SpecComment; SpecEnc runs encodeParams byte by byte against             *)
(* url.ParseQuery.                                                         *)
(*                                                                         *)
(* The HTTP client is the environment: every request handed to Client.Do   *)
(* is answered by an arbitrary outcome of the set Outcomes.                *)
(***************************************************************************)
EXTENDS Integers, Sequences, FiniteSets, TLC

VARIABLES rev, key, site, client, wraps, verified, ncalls, log, op, sent, got, ret,
          procs, trace, api, acall, comment, enc

vars == <<rev, key, site, client, wraps, verified, ncalls, log, op, sent, got, ret,
          procs, trace, api, acall, comment, enc>>

(***************************************************************************)
(* Bounds of the model.                                                    *)
(***************************************************************************)
\* Number of public calls made on one Checker.
MaxCalls == 2

\* Number of WrapClient decorators around the base client.
MaxWrap == 3

\* Number of goroutines that call one Checker at the same time.
NProcs == 2

\* Number of calls made on one API value.
MaxAPICalls == 3

(***************************************************************************)
(* Program constants.                                                      *)
(***************************************************************************)
UA == "Gokismet/3.0"
UserAgent == "Gokismet/3.0"

pkKey == "key"
pkSite == "blog"
paramKey == "key"
paramSite == "blog"

reqMethod == "POST"
reqScheme == "https"
reqHost == "rest.akismet.com"
reqAPIVersion == "1.1"
reqVerifyKey == "verify-key"
reqCheckComment == "comment-check"
reqSubmitHam == "submit-ham"
reqSubmitSpam == "submit-spam"
reqContentType == "application/x-www-form-urlencoded"

hdrUserAgent == "User-Agent"
hdrContentType == "Content-Type"
hdrHelp == "X-Akismet-Debug-Help"
hdrProTip == "X-Akismet-Pro-Tip"
headerDebugHelp == "X-Akismet-Debug-Help"
headerProTip == "X-Akismet-Pro-Tip"

respVerified == "valid"
respHam == "false"
respSpam == "true"
respSubmitted == "Thanks for making the web a better place."
respDiscard == "discard"
responseVerified == "valid"
responseHam == "false"
responseSpam == "true"
responseReported == "Thanks for making the web a better place."
proTipDiscard == "discard"

methodVerify == "verify-key"
methodCheck == "comment-check"
methodReportHam == "submit-ham"
methodReportSpam == "submit-spam"

\* type APICall (revision A), an iota enumeration.
APIVerifyKey == 0
APICheckComment == 1
APISubmitHam == 2
APISubmitSpam == 3

\* type SpamStatus, an iota enumeration (the same in both revisions).
StatusUnknown == 0
StatusHam == 1
StatusProbableSpam == 2
StatusDefiniteSpam == 3

\* net/http: http.StatusOK and the status line http.Response.Status.
StatusOK == 200

StatusLine(code) ==
    CASE code = 200 -> "200 OK"
      [] code = 301 -> "301 Moved Permanently"
      [] code = 500 -> "500 Internal Server Error"
      [] OTHER      -> "000"

(***************************************************************************)
(* Maps (map[string]string, http.Header).  A nil map and an empty map are  *)
(* the function with the empty domain.                                     *)
(***************************************************************************)
EmptyMap == [k \in {} |-> ""]

\* http.Header.Get: the value stored under the name, "" when it is absent.
Get(header, name) == IF name \in DOMAIN header THEN header[name] ELSE ""

\* merge that keeps the entry of dst when both maps have the key.
mergeKeepsDst(dst, src) ==
    [k \in DOMAIN dst \cup DOMAIN src |->
        IF k \in DOMAIN dst THEN dst[k] ELSE src[k]]

\* The inner function merge of mergeMaps: every entry of src is written
\* into dst.
merge(dst, src) ==
    [k \in DOMAIN dst \cup DOMAIN src |->
        IF k \in DOMAIN src THEN src[k] ELSE dst[k]]

\* mergeMaps folds merge over its arguments, left to right, from nil.
RECURSIVE mergeFrom(_, _)
mergeFrom(values, maps) ==
    IF maps = <<>> THEN values
    ELSE mergeFrom(merge(values, Head(maps)), Tail(maps))

mergeMaps(maps) == mergeFrom(EmptyMap, maps)

\* The same with the identity of the maps.  A map value is a reference: id
\* names the map it refers to ("nil" for the nil map), data are its entries.
NilMap == [id |-> "nil", data |-> EmptyMap]

\* merge that writes the entries of dst into src and returns src.
mergeRefIntoSrc(dst, src) ==
    IF DOMAIN src.data = {} THEN dst
    ELSE [id |-> src.id, data |-> merge(src.data, dst.data)]

\* The inner function merge: for every entry of src, dst is made if it is
\* nil and the entry is written into it; dst is returned.
mergeRef(dst, src) ==
    IF DOMAIN src.data = {} THEN dst
    ELSE [id |-> IF dst.id = "nil" THEN "made" ELSE dst.id,
          data |-> merge(dst.data, src.data)]

\* The loop of mergeMaps and mergeStringMaps, from var values (nil).
RECURSIVE mergeRefsFrom(_, _)
mergeRefsFrom(values, maps) ==
    IF maps = <<>> THEN values
    ELSE mergeRefsFrom(mergeRef(values, Head(maps)), Tail(maps))

\* The caller's map after mergeMaps(defaultParams, params) has run: what
\* was written into it, if it is the map that mergeMaps wrote into.
afterMerge(defaultParams, params) ==
    LET r == mergeRefsFrom(NilMap,
                 <<[id |-> "defaultParams", data |-> defaultParams],
                   [id |-> "params", data |-> params]>>)
    IN  IF r.id = "params" THEN r.data ELSE params

mergeStringMaps(maps) == mergeFrom(EmptyMap, maps)

\* url.QueryEscape on the strings of the model: ":" and "/" are escaped, a
\* space becomes "+", letters, digits and "." are kept.
QueryEscape(s) ==
    CASE s = "http://example.com"   -> "http%3A%2F%2Fexample.com"
      [] s = "http://other.example" -> "http%3A%2F%2Fother.example"
      [] s = "bad key"              -> "bad+key"
      [] OTHER                      -> s

\* url.Values.Encode sorts by key; the keys the model uses, in that order.
SortedKeys == <<"blog", "key", "user_ip">>

\* An encoder that ends every pair with "&" instead of joining the pairs.
RECURSIVE encodeFromTrailing(_, _)
encodeFromTrailing(params, keys) ==
    IF keys = <<>> THEN ""
    ELSE LET k == Head(keys)
             rest == encodeFromTrailing(params, Tail(keys))
         IN  IF k \in DOMAIN params /\ params[k] # ""
             THEN k \o "=" \o QueryEscape(params[k]) \o "&" \o rest
             ELSE rest

\* The loop of encodeParams over the sorted keys followed by Encode: the
\* pairs with a non-empty value, "key=escaped value", joined with "&".
RECURSIVE encodeFrom(_, _)
encodeFrom(params, keys) ==
    IF keys = <<>> THEN ""
    ELSE LET k == Head(keys)
             rest == encodeFrom(params, Tail(keys))
         IN  IF k \in DOMAIN params /\ params[k] # ""
             THEN k \o "=" \o QueryEscape(params[k])
                    \o (IF rest = "" THEN "" ELSE "&" \o rest)
             ELSE rest

\* encodeParams: the form body of the request.
encodeParams(params) == encodeFrom(params, SortedKeys)

(***************************************************************************)
(* Error values.  NoErr is Go's nil error.                                 *)
(***************************************************************************)
NoErr == [kind |-> "nil"]

\* Revision A.
newAPIError(call, result, header) ==
    [kind |-> "APIError", Call |-> call, Result |-> result,
     Help |-> Get(header, hdrHelp)]

\* newAuthError that leaves Help empty.
newAuthErrorNoHelp(k, s, result, header) ==
    [kind |-> "AuthError", Key |-> k, Site |-> s, Result |-> result,
     Help |-> ""]

newAuthError(k, s, result, header) ==
    [kind |-> "AuthError", Key |-> k, Site |-> s, Result |-> result,
     Help |-> Get(header, hdrHelp)]

\* Revision B.
newValError(method, response, header) ==
    [kind |-> "ValError", Method |-> method, Response |-> response,
     Hint |-> Get(header, headerDebugHelp)]

newKeyError(k, s, response, header) ==
    [kind |-> "KeyError", Key |-> k, Site |-> s,
     ValError |-> newValError(methodVerify, response, header)]

\* errors.New
errorsNew(text) == [kind |-> "errorString", s |-> text]

(***************************************************************************)
(* The environment: credentials, caller values and what Client.Do and the  *)
(* read of the response body can produce.                                  *)
(***************************************************************************)
Revisions == {"A", "B"}

\* The empty key, a well-formed key, and a key with a character that no
\* host name may contain.
Keys == {"", "123456789abc", "bad key"}

Sites == {"", "http://example.com"}

\* Caller values: nil, a map that overrides the site, a map that overrides it
\* with the empty string, a map without a site, a map with a key entry.
ValuesSet == {EmptyMap,
              ("blog" :> "http://other.example"),
              ("blog" :> ""),
              ("user_ip" :> "127.0.0.1"),
              ("key" :> "otherkey")}

Absent == "<absent>"

HeaderOf(help, tip) ==
    [n \in (IF help = Absent THEN {} ELSE {hdrHelp})
           \cup (IF tip = Absent THEN {} ELSE {hdrProTip}) |->
        IF n = hdrHelp THEN help ELSE tip]

\* Response headers: none, a debug hint, a pro tip ("discard" or another).
Headers == {HeaderOf(Absent, Absent), HeaderOf("bad key", Absent),
            HeaderOf(Absent, "discard"), HeaderOf(Absent, "other")}

Codes == {200, 500}

Bodies == {"valid", "invalid", "true", "false",
           "Thanks for making the web a better place."}

\* Client.Do returned a response whose body can be read.
Responses ==
    [kind : {"resp"}, code : Codes, body : Bodies, header : Headers,
     err : {NoErr}]

\* Client.Do returned an error.
DoErr ==
    [kind |-> "doerr", code |-> 0, body |-> "", header |-> EmptyMap,
     err |-> [kind |-> "ClientError", s |-> "no response"]]

\* Client.Do returned a 200 response, ioutil.ReadAll of its body failed.
ReadErr ==
    [kind |-> "readerr", code |-> 200, body |-> "", header |-> EmptyMap,
     err |-> [kind |-> "ReadError", s |-> "unexpected EOF"]]

Outcomes == Responses \cup {DoErr, ReadErr}

\* The outcomes tried with each caller map: all of them with nil values, the
\* plain ones with the other maps.
PlainOutcomes ==
    {o \in Responses : o.code = 200 /\ o.header = EmptyMap
                        /\ o.body \in {"valid", "true"}} \cup {DoErr}

\* The outcomes tried behind a decorated client: the plain ones and a
\* response that carries a header.
WrappedOutcomes ==
    PlainOutcomes \cup
    {o \in Responses : o.code = 200 /\ o.body = "true"
                        /\ o.header = HeaderOf(Absent, "discard")}

Env(values) ==
    IF client # <<>> THEN WrappedOutcomes
    ELSE IF values = EmptyMap THEN Outcomes ELSE PlainOutcomes

\* The caller values tried: all of them on a bare client, nil behind a
\* decorated one.
Inputs == IF client = <<>> THEN ValuesSet ELSE {EmptyMap}

(***************************************************************************)
(* Clients.  A client is the list of the header maps of its decorators,    *)
(* the decorator the Checker calls first at the head; the empty list is    *)
(* the base client, whose Do answers the request with the outcome o.       *)
(***************************************************************************)
\* The header maps handed to WrapClient.
WrapHeaders == {("User-Agent" :> "A"),
                ("User-Agent" :> "B" @@ "From" :> "first.last@gmail.com"),
                ("Cache-Control" :> "no-cache")}

\* WrapClient that puts the new decorator next to the base client.
WrapClientInside(c, headers) == c \o <<headers>>

\* WrapClient: a decorator around the client c.
WrapClient(c, headers) == <<headers>> \o c

\* The client built by wrapping the base client with ws[1], then ws[2], ...
RECURSIVE wrapAll(_, _)
wrapAll(c, ws) ==
    IF ws = <<>> THEN c ELSE wrapAll(WrapClient(c, Head(ws)), Tail(ws))

\* The sequences of at most n header maps.
RECURSIVE WrapSeqs(_)
WrapSeqs(n) ==
    IF n = 0 THEN {<<>>}
    ELSE WrapSeqs(n - 1) \cup
         {Append(ws, h) : ws \in {w \in WrapSeqs(n - 1) : Len(w) = n - 1},
                          h \in WrapHeaders}

\* A decorator that leaves a header alone when the request already has it.
RECURSIVE DoKeepsExisting(_, _, _)
DoKeepsExisting(c, req, o) ==
    IF c = <<>> THEN [req |-> req, resp |-> o]
    ELSE DoKeepsExisting(Tail(c),
                         [req EXCEPT !.header = merge(Head(c), req.header)], o)

\* clientWithHeaders.Do, down to the base client: every decorator sets its
\* headers on the request (req.Header.Set) and delegates to the client it
\* wraps; the base client's answer comes back as it is.  [req, resp]: the
\* request the base client received and what the Checker gets back.
RECURSIVE Do(_, _, _)
Do(c, req, o) ==
    IF c = <<>> THEN [req |-> req, resp |-> o]
    ELSE Do(Tail(c), [req EXCEPT !.header = merge(req.header, Head(c))], o)

(***************************************************************************)
(* Requests.                                                               *)
(***************************************************************************)
\* url.URL.String on the hosts of the model: the space of a host is written
\* as "%20", letters, digits and "." are kept.
escapeHost(host) ==
    IF host = "bad key.rest.akismet.com" THEN "bad%20key.rest.akismet.com"
    ELSE host

\* endpoint that qualifies the host of every call, verify-key included.
endpointAllQualified(call, k) ==
    LET command == CASE call = APIVerifyKey    -> reqVerifyKey
                     [] call = APICheckComment -> reqCheckComment
                     [] call = APISubmitHam    -> reqSubmitHam
                     [] call = APISubmitSpam   -> reqSubmitSpam
                     [] OTHER                  -> "panic"
    IN  reqScheme \o "://" \o escapeHost(k \o "." \o reqHost) \o "/"
            \o reqAPIVersion \o "/" \o command

\* endpoint (revision A): url.URL{Scheme, Host, Path}.String().
endpoint(call, k) ==
    LET command == CASE call = APIVerifyKey    -> reqVerifyKey
                     [] call = APICheckComment -> reqCheckComment
                     [] call = APISubmitHam    -> reqSubmitHam
                     [] call = APISubmitSpam   -> reqSubmitSpam
                     [] OTHER                  -> "panic"
        qualified == call \in {APICheckComment, APISubmitHam, APISubmitSpam}
        host == IF qualified THEN k \o "." \o reqHost ELSE reqHost
    IN  reqScheme \o "://" \o escapeHost(host) \o "/" \o reqAPIVersion
            \o "/" \o command

\* buildURL (revision B).
buildURL(method, k) ==
    LET s == IF k # "" THEN "https://" \o k \o "." ELSE "https://"
    IN  s \o "rest.akismet.com/1.1/" \o method

\* The URLs of the model that url.Parse, called by http.NewRequest, rejects:
\* a host with a space, or with an escape other than of a non-ASCII byte.
Methods == {"verify-key", "comment-check", "submit-ham", "submit-spam"}

MalformedURLs ==
    {"https://bad key.rest.akismet.com/1.1/" \o m : m \in Methods} \cup
    {"https://bad%20key.rest.akismet.com/1.1/" \o m : m \in Methods}

\* The error of http.NewRequest for such a URL.
newRequestError(u) == [kind |-> "url.Error", Op |-> "parse", URL |-> u]

\* What request / newRequest return with a non-nil error: no request.
NoRequest == [method |-> "", url |-> "", body |-> "", header |-> EmptyMap]

\* request without the default headers.
requestNoDefaults(ep, params) ==
    IF ep \in MalformedURLs THEN NoRequest
    ELSE [method |-> reqMethod, url |-> ep, body |-> encodeParams(params),
          header |-> EmptyMap]

\* request (revision A): a POST of the encoded parameters with the default
\* headers, NoRequest when http.NewRequest fails.
request(ep, params) ==
    IF ep \in MalformedURLs THEN NoRequest
    ELSE [method |-> reqMethod, url |-> ep, body |-> encodeParams(params),
          header |-> (hdrContentType :> reqContentType @@ hdrUserAgent :> UA)]

\* newRequest (revision B).
newRequest(u, params) ==
    IF u \in MalformedURLs THEN NoRequest
    ELSE [method |-> "POST", url |-> u, body |-> encodeParams(params),
          header |-> ("Content-Type" :> "application/x-www-form-urlencoded"
                      @@ "User-Agent" :> UserAgent)]

(***************************************************************************)
(* Revision A: execute and verify.  The parameter o is the outcome the     *)
(* client produces for the request.                                        *)
(***************************************************************************)
\* execute that puts the body, not the status line, into the error.
executeBodyInError(call, params, o) ==
    LET defaultParams == (pkSite :> site)
        ep == endpoint(call, key)
        rq == request(ep, mergeMaps(<<defaultParams, params>>))
        d == Do(client, rq, o)
        req == d.req
        r == d.resp
    IN  IF rq = NoRequest
        THEN [req |-> NoRequest, body |-> "", header |-> EmptyMap,
              err |-> newRequestError(ep)]
        ELSE IF r.kind = "doerr"
        THEN [req |-> req, body |-> "", header |-> EmptyMap, err |-> r.err]
        ELSE IF r.code # StatusOK
        THEN [req |-> req, body |-> "", header |-> EmptyMap,
              err |-> newAPIError(call, r.body, r.header)]
        ELSE IF r.kind = "readerr"
        THEN [req |-> req, body |-> "", header |-> EmptyMap, err |-> r.err]
        ELSE [req |-> req, body |-> r.body, header |-> r.header, err |-> NoErr]

\* execute without the test of resp.StatusCode.
executeAnyStatus(call, params, o) ==
    LET defaultParams == (pkSite :> site)
        ep == endpoint(call, key)
        rq == request(ep, mergeMaps(<<defaultParams, params>>))
        d == Do(client, rq, o)
        req == d.req
        r == d.resp
    IN  IF rq = NoRequest
        THEN [req |-> NoRequest, body |-> "", header |-> EmptyMap,
              err |-> newRequestError(ep)]
        ELSE IF r.kind # "resp"
        THEN [req |-> req, body |-> "", header |-> EmptyMap, err |-> r.err]
        ELSE [req |-> req, body |-> r.body, header |-> r.header, err |-> NoErr]

\* Checker.execute: [req, body, header, err]; req is the request as the base
\* client received it (NoRequest when none was built), r what ch.client.Do
\* returned.
execute(call, params, o) ==
    LET defaultParams == (pkSite :> site)
        ep == endpoint(call, key)
        rq == request(ep, mergeMaps(<<defaultParams, params>>))
        d == Do(client, rq, o)
        req == d.req
        r == d.resp
    IN  IF rq = NoRequest
        THEN [req |-> NoRequest, body |-> "", header |-> EmptyMap,
              err |-> newRequestError(ep)]
        ELSE IF r.kind = "doerr"
        THEN [req |-> req, body |-> "", header |-> EmptyMap, err |-> r.err]
        ELSE IF r.code # StatusOK
        THEN [req |-> req, body |-> "", header |-> EmptyMap,
              err |-> newAPIError(call, "Status " \o StatusLine(r.code), r.header)]
        ELSE IF r.kind = "readerr"
        THEN [req |-> req, body |-> "", header |-> EmptyMap, err |-> r.err]
        ELSE [req |-> req, body |-> r.body, header |-> r.header, err |-> NoErr]

\* verify that turns every failure of execute into an AuthError.
verifyWrapsError(o) ==
    LET values == (pkKey :> key @@ pkSite :> site)
        e == execute(APIVerifyKey, values, o)
    IN  IF e.err # NoErr \/ e.body # respVerified
        THEN [req |-> e.req, err |-> newAuthError(key, site, e.body, e.header)]
        ELSE [req |-> e.req, err |-> NoErr]

\* verify without the comparison of the body with "valid".
verifyAnyBody(o) ==
    LET values == (pkKey :> key @@ pkSite :> site)
        e == execute(APIVerifyKey, values, o)
    IN  [req |-> e.req, err |-> e.err]

\* Checker.verify: [req, err].
verify(o) ==
    LET values == (pkKey :> key @@ pkSite :> site)
        e == execute(APIVerifyKey, values, o)
    IN  IF e.err # NoErr
        THEN [req |-> e.req, err |-> e.err]
        ELSE IF e.body # respVerified
        THEN [req |-> e.req, err |-> newAuthError(key, site, e.body, e.header)]
        ELSE [req |-> e.req, err |-> NoErr]

(***************************************************************************)
(* Revision B: call and verify.                                            *)
(***************************************************************************)
\* Checker.call: [req, body, header, err].
call(u, params, o) ==
    LET defaultParams == (paramSite :> site)
        rq == newRequest(u, mergeStringMaps(<<defaultParams, params>>))
        d == Do(client, rq, o)
        req == d.req
        r == d.resp
    IN  IF rq = NoRequest
        THEN [req |-> NoRequest, body |-> "", header |-> EmptyMap,
              err |-> newRequestError(u)]
        ELSE IF r.kind = "doerr"
        THEN [req |-> req, body |-> "", header |-> EmptyMap, err |-> r.err]
        ELSE IF r.code # StatusOK
        THEN [req |-> req, body |-> "", header |-> EmptyMap,
              err |-> errorsNew(StatusLine(r.code) \o " returned from " \o u)]
        ELSE [req |-> req, body |-> r.body, header |-> r.header, err |-> r.err]

\* Checker.verify of revision B: [req, err].
verifyB(o) ==
    LET u == buildURL(methodVerify, "")
        values == (paramKey :> key @@ paramSite :> site)
        c == call(u, values, o)
    IN  IF c.err # NoErr
        THEN [req |-> c.req, err |-> c.err]
        ELSE IF c.body # responseVerified
        THEN [req |-> c.req, err |-> newKeyError(key, site, c.body, c.header)]
        ELSE [req |-> c.req, err |-> NoErr]

\* The values of api and acall while no API value is in use.
NoAPI == [key |-> "", UserAgent |-> "", TestMode |-> FALSE, Output |-> FALSE]

NoCall == [n |-> 0, name |-> "none", won |-> FALSE]

\* The value of comment while there is no Comment: the nil pointer.
NoComment == [made |-> FALSE, params |-> EmptyMap]

\* The value of enc while no parameter map is being encoded.
NoEnc == [pc |-> "none"]

(***************************************************************************)
(* What an observer of the Checker records about a public call: the        *)
(* requests that reached the client (sent), the outcomes it gave (got),    *)
(* the values returned (ret), and in log every request of the Checker's    *)
(* lifetime with whether it was answered 200 "valid".  op holds the call,  *)
(* the caller's values and what they are after the call (after): execute   *)
(* or call merged them when the Checker was verified or sent a second      *)
(* request.                                                                *)
(***************************************************************************)
IsValidAnswer(o) == o.kind = "resp" /\ o.code = 200 /\ o.body = "valid"

\* The requests of reqs that were built: all of them, or all but the last.
Built(reqs) ==
    IF reqs[Len(reqs)] = NoRequest THEN Len(reqs) - 1 ELSE Len(reqs)

Finish(name, values, reqs, outs, status, err) ==
    /\ ncalls' = ncalls + 1
    /\ op' = [name |-> name, values |-> values, wasVerified |-> verified,
              after |-> IF verified \/ Len(reqs) = 2
                        THEN afterMerge((pkSite :> site), values)
                        ELSE values]
    /\ sent' = SubSeq(reqs, 1, Built(reqs))
    /\ got' = SubSeq(outs, 1, Built(reqs))
    /\ log' = log \o [i \in 1..Built(reqs) |->
                         [url |-> reqs[i].url, valid |-> IsValidAnswer(outs[i])]]
    /\ ret' = [status |-> status, err |-> err]
    /\ UNCHANGED <<rev, key, site, client, wraps, procs, trace, api, acall,
                   comment, enc>>

(***************************************************************************)
(* Revision A: the public methods.                                         *)
(***************************************************************************)
\* The switch of Check without the case for the pro tip "discard".
CheckResultNoDiscard(result, header) ==
    CASE result = respHam
           -> [status |-> StatusHam, err |-> NoErr]
      [] result # respHam /\ result = respSpam
           -> [status |-> StatusProbableSpam, err |-> NoErr]
      [] OTHER
           -> [status |-> StatusUnknown,
               err |-> newAPIError(APICheckComment, result, header)]

\* The switch of Checker.Check on the body and the pro-tip header.
CheckResult(result, header) ==
    CASE result = respHam
           -> [status |-> StatusHam, err |-> NoErr]
      [] result # respHam /\ result = respSpam /\ Get(header, hdrProTip) = respDiscard
           -> [status |-> StatusDefiniteSpam, err |-> NoErr]
      [] result # respHam /\ result = respSpam /\ Get(header, hdrProTip) # respDiscard
           -> [status |-> StatusProbableSpam, err |-> NoErr]
      [] OTHER
           -> [status |-> StatusUnknown,
               err |-> newAPIError(APICheckComment, result, header)]

\* Check whose verification request is built from the caller's values too.
CheckVerifiesWithValues ==
    /\ rev = "A"
    /\ ncalls < MaxCalls
    /\ \E values \in Inputs :
         \/ /\ ~verified
            /\ \E o1 \in Env(values) :
                 \E v \in {LET e == execute(APIVerifyKey,
                                          merge((pkKey :> key @@ pkSite :> site),
                                                values), o1)
                          IN  IF e.err # NoErr
                              THEN [req |-> e.req, err |-> e.err]
                              ELSE IF e.body # respVerified
                              THEN [req |-> e.req,
                                    err |-> newAuthError(key, site, e.body,
                                                         e.header)]
                              ELSE [req |-> e.req, err |-> NoErr]} :
                 \/ /\ v.err # NoErr
                    /\ verified' = verified
                    /\ Finish("Check", values, <<v.req>>, <<o1>>, StatusUnknown, v.err)
                 \/ /\ v.err = NoErr
                    /\ verified' = TRUE
                    /\ \E o2 \in Env(values) :
                         \E e \in {execute(APICheckComment, values, o2)} :
                         LET r == IF e.err # NoErr
                                  THEN [status |-> StatusUnknown, err |-> e.err]
                                  ELSE CheckResult(e.body, e.header)
                         IN  Finish("Check", values, <<v.req, e.req>>, <<o1, o2>>,
                                    r.status, r.err)
         \/ /\ verified
            /\ verified' = verified
            /\ \E o2 \in Env(values) :
                 \E e \in {execute(APICheckComment, values, o2)} :
                 LET r == IF e.err # NoErr
                          THEN [status |-> StatusUnknown, err |-> e.err]
                          ELSE CheckResult(e.body, e.header)
                 IN  Finish("Check", values, <<e.req>>, <<o2>>, r.status, r.err)

\* Checker.Check
Check ==
    /\ rev = "A"
    /\ ncalls < MaxCalls
    /\ \E values \in Inputs :
         \/ /\ ~verified
            /\ \E o1 \in Env(values) :
                 \E v \in {verify(o1)} :
                 \/ /\ v.err # NoErr
                    /\ verified' = verified
                    /\ Finish("Check", values, <<v.req>>, <<o1>>, StatusUnknown, v.err)
                 \/ /\ v.err = NoErr
                    /\ verified' = TRUE
                    /\ \E o2 \in Env(values) :
                         \E e \in {execute(APICheckComment, values, o2)} :
                         LET r == IF e.err # NoErr
                                  THEN [status |-> StatusUnknown, err |-> e.err]
                                  ELSE CheckResult(e.body, e.header)
                         IN  Finish("Check", values, <<v.req, e.req>>, <<o1, o2>>,
                                    r.status, r.err)
         \/ /\ verified
            /\ verified' = verified
            /\ \E o2 \in Env(values) :
                 \E e \in {execute(APICheckComment, values, o2)} :
                 LET r == IF e.err # NoErr
                          THEN [status |-> StatusUnknown, err |-> e.err]
                          ELSE CheckResult(e.body, e.header)
                 IN  Finish("Check", values, <<e.req>>, <<o2>>, r.status, r.err)

\* submit that reports every failure as one of submit-spam.
submitResultWrongCall(c, e) ==
    IF e.err # NoErr THEN e.err
    ELSE IF e.body # respSubmitted THEN newAPIError(APISubmitSpam, e.body, e.header)
    ELSE NoErr

\* The part of Checker.submit after the verification: the error returned.
submitResult(c, e) ==
    IF e.err # NoErr THEN e.err
    ELSE IF e.body # respSubmitted THEN newAPIError(c, e.body, e.header)
    ELSE NoErr

\* submit without the assignment ch.verified = true.
submitNoFlag(name, c, values) ==
    \/ /\ ~verified
       /\ \E o1 \in Env(values) :
            \E v \in {verify(o1)} :
            \/ /\ v.err # NoErr
               /\ verified' = verified
               /\ Finish(name, values, <<v.req>>, <<o1>>, StatusUnknown, v.err)
            \/ /\ v.err = NoErr
               /\ verified' = verified
               /\ \E o2 \in Env(values) :
                    \E e \in {execute(c, values, o2)} :
                        Finish(name, values, <<v.req, e.req>>, <<o1, o2>>,
                               StatusUnknown, submitResult(c, e))
    \/ /\ verified
       /\ verified' = verified
       /\ \E o2 \in Env(values) :
            \E e \in {execute(c, values, o2)} :
                Finish(name, values, <<e.req>>, <<o2>>, StatusUnknown,
                       submitResult(c, e))

\* submit that sends the request a second time when the first one failed.
submitRetries(name, c, values) ==
    \/ /\ ~verified
       /\ \E o1 \in Env(values) :
            \E v \in {verify(o1)} :
            \/ /\ v.err # NoErr
               /\ verified' = verified
               /\ Finish(name, values, <<v.req>>, <<o1>>, StatusUnknown, v.err)
            \/ /\ v.err = NoErr
               /\ verified' = TRUE
               /\ \E o2 \in Env(values) :
                    \E e \in {execute(c, values, o2)} :
                        Finish(name, values, <<v.req, e.req>>, <<o1, o2>>,
                               StatusUnknown, submitResult(c, e))
    \/ /\ verified
       /\ verified' = verified
       /\ \E o2 \in Env(values) :
            \E e \in {execute(c, values, o2)} :
                IF submitResult(c, e) = NoErr
                THEN Finish(name, values, <<e.req>>, <<o2>>, StatusUnknown, NoErr)
                ELSE Finish(name, values, <<e.req, e.req>>, <<o2, o2>>,
                            StatusUnknown, submitResult(c, e))

\* Checker.submit
submit(name, c, values) ==
    \/ /\ ~verified
       /\ \E o1 \in Env(values) :
            \E v \in {verify(o1)} :
            \/ /\ v.err # NoErr
               /\ verified' = verified
               /\ Finish(name, values, <<v.req>>, <<o1>>, StatusUnknown, v.err)
            \/ /\ v.err = NoErr
               /\ verified' = TRUE
               /\ \E o2 \in Env(values) :
                    \E e \in {execute(c, values, o2)} :
                        Finish(name, values, <<v.req, e.req>>, <<o1, o2>>,
                               StatusUnknown, submitResult(c, e))
    \/ /\ verified
       /\ verified' = verified
       /\ \E o2 \in Env(values) :
            \E e \in {execute(c, values, o2)} :
                Finish(name, values, <<e.req>>, <<o2>>, StatusUnknown,
                       submitResult(c, e))

\* SubmitHam that hands submit a value that is no APICall constant.
SubmitHamUnknownCall ==
    /\ rev = "A"
    /\ ncalls < MaxCalls
    /\ \E values \in Inputs : submit("SubmitHam", APISubmitSpam + 1, values)

\* Checker.SubmitHam
SubmitHam ==
    /\ rev = "A"
    /\ ncalls < MaxCalls
    /\ \E values \in Inputs : submit("SubmitHam", APISubmitHam, values)

\* Checker.SubmitSpam
SubmitSpam ==
    /\ rev = "A"
    /\ ncalls < MaxCalls
    /\ \E values \in Inputs : submit("SubmitSpam", APISubmitSpam, values)

(***************************************************************************)
(* Revision B: the public methods.                                         *)
(***************************************************************************)
\* The switch of Check (revision B) whose default case returns a nil error.
CheckResultBNilError(body, header) ==
    CASE body = responseHam
           -> [status |-> StatusHam, err |-> NoErr]
      [] body # responseHam /\ body = responseSpam
           -> IF Get(header, headerProTip) = proTipDiscard
              THEN [status |-> StatusDefiniteSpam, err |-> NoErr]
              ELSE [status |-> StatusProbableSpam, err |-> NoErr]
      [] OTHER
           -> [status |-> StatusUnknown, err |-> NoErr]

\* The switch of Checker.Check (revision B).
CheckResultB(body, header) ==
    CASE body = responseHam
           -> [status |-> StatusHam, err |-> NoErr]
      [] body # responseHam /\ body = responseSpam
           -> IF Get(header, headerProTip) = proTipDiscard
              THEN [status |-> StatusDefiniteSpam, err |-> NoErr]
              ELSE [status |-> StatusProbableSpam, err |-> NoErr]
      [] OTHER
           -> [status |-> StatusUnknown,
               err |-> newValError(methodCheck, body, header)]

\* Checker.Check (revision B)
CheckB ==
    /\ rev = "B"
    /\ ncalls < MaxCalls
    /\ \E values \in Inputs :
         \/ /\ ~verified
            /\ \E o1 \in Env(values) :
                 \E v \in {verifyB(o1)} :
                 \/ /\ v.err # NoErr
                    /\ verified' = verified
                    /\ Finish("Check", values, <<v.req>>, <<o1>>, StatusUnknown, v.err)
                 \/ /\ v.err = NoErr
                    /\ verified' = TRUE
                    /\ \E o2 \in Env(values) :
                         \E c \in {call(buildURL(methodCheck, key), values, o2)} :
                         LET r == IF c.err # NoErr
                                  THEN [status |-> StatusUnknown, err |-> c.err]
                                  ELSE CheckResultB(c.body, c.header)
                         IN  Finish("Check", values, <<v.req, c.req>>, <<o1, o2>>,
                                    r.status, r.err)
         \/ /\ verified
            /\ verified' = verified
            /\ \E o2 \in Env(values) :
                 \E c \in {call(buildURL(methodCheck, key), values, o2)} :
                 LET r == IF c.err # NoErr
                          THEN [status |-> StatusUnknown, err |-> c.err]
                          ELSE CheckResultB(c.body, c.header)
                 IN  Finish("Check", values, <<c.req>>, <<o2>>, r.status, r.err)

\* The part of Checker.report after the verification: the error returned.
reportResult(method, c) ==
    IF c.err # NoErr THEN c.err
    ELSE IF c.body # responseReported THEN newValError(method, c.body, c.header)
    ELSE NoErr

\* report that goes on to the call after a failed verification.
reportFallsThrough(name, method, values) ==
    \/ /\ ~verified
       /\ \E o1 \in Env(values) :
            \E v \in {verifyB(o1)} :
            /\ verified' = (v.err = NoErr)
            /\ \E o2 \in Env(values) :
                 \E c \in {call(buildURL(method, key), values, o2)} :
                     Finish(name, values, <<v.req, c.req>>, <<o1, o2>>,
                            StatusUnknown, reportResult(method, c))
    \/ /\ verified
       /\ verified' = verified
       /\ \E o2 \in Env(values) :
            \E c \in {call(buildURL(method, key), values, o2)} :
                Finish(name, values, <<c.req>>, <<o2>>, StatusUnknown,
                       reportResult(method, c))

\* Checker.report
report(name, method, values) ==
    \/ /\ ~verified
       /\ \E o1 \in Env(values) :
            \E v \in {verifyB(o1)} :
            \/ /\ v.err # NoErr
               /\ verified' = verified
               /\ Finish(name, values, <<v.req>>, <<o1>>, StatusUnknown, v.err)
            \/ /\ v.err = NoErr
               /\ verified' = TRUE
               /\ \E o2 \in Env(values) :
                    \E c \in {call(buildURL(method, key), values, o2)} :
                        Finish(name, values, <<v.req, c.req>>, <<o1, o2>>,
                               StatusUnknown, reportResult(method, c))
    \/ /\ verified
       /\ verified' = verified
       /\ \E o2 \in Env(values) :
            \E c \in {call(buildURL(method, key), values, o2)} :
                Finish(name, values, <<c.req>>, <<o2>>, StatusUnknown,
                       reportResult(method, c))

\* Checker.ReportHam
ReportHam ==
    /\ rev = "B"
    /\ ncalls < MaxCalls
    /\ \E values \in Inputs : report("ReportHam", methodReportHam, values)

\* Checker.ReportSpam
ReportSpam ==
    /\ rev = "B"
    /\ ncalls < MaxCalls
    /\ \E values \in Inputs : report("ReportSpam", methodReportSpam, values)

(***************************************************************************)
(* The specification: a Checker as NewCheckerWithClient / NewCheckerClient *)
(* return it, then any sequence of public calls, one at a time.            *)
(***************************************************************************)
Init ==
    /\ rev \in Revisions
    /\ key \in Keys
    /\ site \in Sites
    /\ wraps = <<>>
    /\ client = <<>>
    /\ verified = FALSE
    /\ ncalls = 0
    /\ log = <<>>
    /\ op = [name |-> "none", values |-> EmptyMap, wasVerified |-> FALSE,
             after |-> EmptyMap]
    /\ sent = <<>>
    /\ got = <<>>
    /\ ret = [status |-> StatusUnknown, err |-> NoErr]
    /\ procs = <<>>
    /\ trace = <<>>
    /\ api = NoAPI
    /\ acall = NoCall
    /\ comment = NoComment
    /\ enc = NoEnc

Next == Check \/ SubmitHam \/ SubmitSpam \/ CheckB \/ ReportHam \/ ReportSpam

Spec == Init /\ [][Next]_vars

(***************************************************************************)
(* The same Checker built on a decorated client: NewCheckerWithClient      *)
(* (NewCheckerClient) is handed the client that WrapClient built around    *)
(* the base client, one decorator for every header map of wraps, wraps[1]  *)
(* applied first.                                                          *)
(***************************************************************************)
InitWrap ==
    /\ rev \in Revisions
    /\ key = "123456789abc"
    /\ site = "http://example.com"
    /\ wraps \in WrapSeqs(MaxWrap)
    /\ client = wrapAll(<<>>, wraps)
    /\ verified = FALSE
    /\ ncalls = 0
    /\ log = <<>>
    /\ op = [name |-> "none", values |-> EmptyMap, wasVerified |-> FALSE,
             after |-> EmptyMap]
    /\ sent = <<>>
    /\ got = <<>>
    /\ ret = [status |-> StatusUnknown, err |-> NoErr]
    /\ procs = <<>>
    /\ trace = <<>>
    /\ api = NoAPI
    /\ acall = NoCall
    /\ comment = NoComment
    /\ enc = NoEnc

SpecWrap == InitWrap /\ [][Next]_vars

(***************************************************************************)
(* Concurrent first use: NProcs goroutines call public methods of one      *)
(* Checker at the same time.  The methods hold no lock, so their steps     *)
(* interleave: the read of ch.verified, the verify-key request and its     *)
(* answer, the write ch.verified = true, the request of the call and its   *)
(* answer.  procs[p] is the goroutine p: where it is (pc), the method it   *)
(* runs (name), the value its read of ch.verified returned (saw), the      *)
(* value ch.verified had at that moment (mem) and what the method returned *)
(* (ret).  trace counts what the client has seen so far: the verify-key    *)
(* requests, the verify-key requests answered 200 "valid", the other       *)
(* requests, and those of them that arrived before any verify-key request  *)
(* had been answered 200 "valid" (ungated).                                *)
(***************************************************************************)
Procs == 1..NProcs

OpNames == IF rev = "A" THEN {"Check", "SubmitHam", "SubmitSpam"}
           ELSE {"Check", "ReportHam", "ReportSpam"}

\* What the client answers in the concurrent runs.
VerifyAnswers ==
    {o \in Responses : o.code = 200 /\ o.header = EmptyMap
                        /\ o.body \in {"valid", "invalid"}} \cup {DoErr}

CallAnswers ==
    {o \in Responses : o.code = 200 /\ o.header = EmptyMap
                        /\ o.body \in {"true", "Thanks for making the web a better place."}}
    \cup {DoErr}

\* What the method name returns for the answer o to its request.
resultOf(name, o) ==
    IF rev = "A"
    THEN IF name = "Check"
         THEN LET e == execute(APICheckComment, EmptyMap, o)
              IN  IF e.err # NoErr THEN [status |-> StatusUnknown, err |-> e.err]
                  ELSE CheckResult(e.body, e.header)
         ELSE LET c == IF name = "SubmitHam" THEN APISubmitHam ELSE APISubmitSpam
              IN  [status |-> StatusUnknown,
                   err |-> submitResult(c, execute(c, EmptyMap, o))]
    ELSE IF name = "Check"
         THEN LET c == call(buildURL(methodCheck, key), EmptyMap, o)
              IN  IF c.err # NoErr THEN [status |-> StatusUnknown, err |-> c.err]
                  ELSE CheckResultB(c.body, c.header)
         ELSE LET m == IF name = "ReportHam" THEN methodReportHam
                       ELSE methodReportSpam
              IN  [status |-> StatusUnknown,
                   err |-> reportResult(m, call(buildURL(m, key), EmptyMap, o))]

Goto(p, label) == procs' = [procs EXCEPT ![p].pc = label]

\* A method that verifies whatever its read of ch.verified returned.
RaceEnterAlwaysVerify(p) ==
    /\ procs[p].pc = "idle"
    /\ \E name \in OpNames : \E b \in {verified, FALSE} :
         procs' = [procs EXCEPT ![p] = [@ EXCEPT !.pc = "verify", !.name = name,
                                                 !.saw = b, !.mem = verified]]
    /\ UNCHANGED <<verified, trace>>

\* The method is called and evaluates !ch.verified.  The read is not
\* synchronised with the writes of other goroutines: it returns the value
\* in memory or the initial value false.
RaceEnter(p) ==
    /\ procs[p].pc = "idle"
    /\ \E name \in OpNames : \E b \in {verified, FALSE} :
         procs' = [procs EXCEPT ![p] = [@ EXCEPT
                      !.pc = IF b THEN "call" ELSE "verify",
                      !.name = name, !.saw = b, !.mem = verified]]
    /\ UNCHANGED <<verified, trace>>

\* A method that sets ch.verified before the verification is answered.
RaceSendVerifySetsFlag(p) ==
    /\ procs[p].pc = "verify"
    /\ trace' = [trace EXCEPT !.verifyReqs = @ + 1]
    /\ verified' = TRUE
    /\ Goto(p, "verifying")

\* ch.verify: the verify-key request reaches the client.
RaceSendVerify(p) ==
    /\ procs[p].pc = "verify"
    /\ trace' = [trace EXCEPT !.verifyReqs = @ + 1]
    /\ Goto(p, "verifying")
    /\ UNCHANGED verified

\* ch.verify returns: with an error the method returns it, otherwise it
\* goes on to the assignment.
RaceRecvVerify(p) ==
    /\ procs[p].pc = "verifying"
    /\ \E o \in VerifyAnswers :
         \E v \in {IF rev = "A" THEN verify(o) ELSE verifyB(o)} :
           /\ trace' = [trace EXCEPT !.validAnswers =
                                       IF IsValidAnswer(o) THEN @ + 1 ELSE @]
           /\ procs' = [procs EXCEPT ![p] = [@ EXCEPT
                          !.pc = IF v.err # NoErr THEN "done" ELSE "set",
                          !.ret = [status |-> StatusUnknown, err |-> v.err]]]
    /\ UNCHANGED verified

\* ch.verified = true
RaceSetFlag(p) ==
    /\ procs[p].pc = "set"
    /\ verified' = TRUE
    /\ Goto(p, "call")
    /\ UNCHANGED trace

\* ch.execute / ch.call: the request of the method reaches the client.
RaceSendCall(p) ==
    /\ procs[p].pc = "call"
    /\ trace' = [trace EXCEPT
                    !.callReqs = @ + 1,
                    !.ungated = IF trace.validAnswers = 0 THEN @ + 1 ELSE @]
    /\ Goto(p, "calling")
    /\ UNCHANGED verified

\* The answer to it: the method returns.
RaceRecvCall(p) ==
    /\ procs[p].pc = "calling"
    /\ \E o \in CallAnswers :
         procs' = [procs EXCEPT ![p] = [@ EXCEPT
                      !.pc = "done", !.ret = resultOf(procs[p].name, o)]]
    /\ UNCHANGED <<verified, trace>>

InitRace ==
    /\ rev \in Revisions
    /\ key = "123456789abc"
    /\ site = "http://example.com"
    /\ wraps = <<>>
    /\ client = <<>>
    /\ verified = FALSE
    /\ ncalls = 0
    /\ log = <<>>
    /\ op = [name |-> "none", values |-> EmptyMap, wasVerified |-> FALSE,
             after |-> EmptyMap]
    /\ sent = <<>>
    /\ got = <<>>
    /\ ret = [status |-> StatusUnknown, err |-> NoErr]
    /\ procs = [p \in Procs |->
                  [pc |-> "idle", name |-> "none", saw |-> FALSE, mem |-> FALSE,
                   ret |-> [status |-> StatusUnknown, err |-> NoErr]]]
    /\ trace = [verifyReqs |-> 0, validAnswers |-> 0, callReqs |-> 0,
                ungated |-> 0]
    /\ api = NoAPI
    /\ acall = NoCall
    /\ comment = NoComment
    /\ enc = NoEnc

NextRace ==
    \E p \in Procs :
        /\ \/ RaceEnter(p)
           \/ RaceSendVerify(p)
           \/ RaceRecvVerify(p)
           \/ RaceSetFlag(p)
           \/ RaceSendCall(p)
           \/ RaceRecvCall(p)
        /\ UNCHANGED <<rev, key, site, client, wraps, ncalls, log, op, sent,
                       got, ret, api, acall, comment, enc>>

SpecRace == InitRace /\ [][NextRace]_vars

(***************************************************************************)
(* The API type of src/api.go: VerifyKey stores the key it verified,       *)
(* CheckComment, SubmitSpam and SubmitHam need a stored key.  Every call   *)
(* goes through API.execute, which logs the request and the response to    *)
(* API.Output when it is set.                                              *)
(*                                                                         *)
(* api is the API value: [key, UserAgent, TestMode, Output], Output TRUE   *)
(* when the field holds a writer.  acall is what an observer records of    *)
(* the last call.                                                          *)
(***************************************************************************)
version == "1.0"
defaultUserAgent == "Gokismet/1.0"

akismetScheme == "https"
akismetHost == "rest.akismet.com"
akismetVersion == "1.1"

StatusNotSpam == 1

errKeyNotVerified == errorsNew("API key has not been verified")

\* NewAPIError: the fields the model's response headers can fill.
NewAPIError(reason, result, header) ==
    [kind |-> "APIError", Reason |-> reason, Result |-> result,
     Help |-> Get(header, "X-Akismet-Debug-Help")]

\* io.Reader bodies: the bytes, whether they are still to be read, and
\* whether reading them fails.
NewBody(data) == [data |-> data, unread |-> TRUE, broken |-> FALSE]

BrokenBody == [data |-> "", unread |-> TRUE, broken |-> TRUE]

\* ioutil.ReadAll: what is left of the body, and the body afterwards.
ReadAll(b) ==
    IF ~b.unread
    THEN [data |-> "", err |-> NoErr, body |-> b]
    ELSE [data |-> IF b.broken THEN "" ELSE b.data,
          err |-> IF b.broken THEN ReadErr.err ELSE NoErr,
          body |-> [b EXCEPT !.unread = FALSE]]

\* restoreBody: a fresh reader over buf.
restoreBody(buf) == NewBody(buf)

\* The writer in API.Output during one call: the number of writes made, the
\* write that fails (0: none) and the strings written.
NoWriter == [n |-> 0, failAt |-> 0, text |-> <<>>]

NewWriter(f) == [n |-> 0, failAt |-> f, text |-> <<>>]

WriteErr == [kind |-> "WriteError", s |-> "short write"]

\* The writes one call can make: the header line and the message of the
\* request, then those of the response.
MaxWrites == 4

\* w.Write(s).
Write(w, s) ==
    IF w.n + 1 = w.failAt
    THEN [w |-> [w EXCEPT !.n = @ + 1], err |-> WriteErr]
    ELSE [w |-> [w EXCEPT !.n = @ + 1, !.text = Append(@, s)],
          err |-> NoErr]

\* http.Request.Write and http.Response.Write: the first line and the body
\* go to w, the body is read to its end and closed.
WriteMessage(w, r) ==
    LET rd == ReadAll(r.body)
        wr == Write(w, r.line \o " " \o rd.data)
    IN  [w |-> wr.w, r |-> [r EXCEPT !.body = rd.body],
         err |-> IF rd.err # NoErr THEN rd.err ELSE wr.err]

\* writeAndRestore that leaves the body as Write left it.
writeAndLeave(w, r, typ) ==
    LET rd == ReadAll(r.body)
        r1 == [r EXCEPT !.body = restoreBody(rd.data)]
        h == Write(w, "[" \o typ \o "]")
        wr == WriteMessage(h.w, r1)
    IN  IF rd.err # NoErr
        THEN [w |-> w, r |-> [r EXCEPT !.body = rd.body], err |-> rd.err]
        ELSE IF h.err # NoErr
        THEN [w |-> h.w, r |-> r1, err |-> h.err]
        ELSE [w |-> wr.w, r |-> wr.r, err |-> wr.err]

\* writeAndRestore(w, r) for a request or a response r; typ is the upper
\* case type name of the header line.  [w, r, err]: the writer and the
\* message afterwards, and the error returned.
writeAndRestore(w, r, typ) ==
    LET rd == ReadAll(r.body)
        r1 == [r EXCEPT !.body = restoreBody(rd.data)]
        h == Write(w, "[" \o typ \o "]")
        wr == WriteMessage(h.w, r1)
    IN  IF rd.err # NoErr
        THEN [w |-> w, r |-> [r EXCEPT !.body = rd.body], err |-> rd.err]
        ELSE IF h.err # NoErr
        THEN [w |-> h.w, r |-> r1, err |-> h.err]
        ELSE [w |-> wr.w, r |-> [wr.r EXCEPT !.body = restoreBody(rd.data)],
              err |-> wr.err]

\* API.log that reports no error.
API_logNoError(a, w, r, typ) ==
    IF a.Output
    THEN [writeAndRestore(w, r, typ) EXCEPT !.err = NoErr]
    ELSE [w |-> w, r |-> r, err |-> NoErr]

\* API.log.
API_log(a, w, r, typ) ==
    IF a.Output THEN writeAndRestore(w, r, typ)
    ELSE [w |-> w, r |-> r, err |-> NoErr]

\* url.Values.Encode: every pair, "key=escaped value", in key order.
ValuesKeys ==
    <<"blog", "comment_author", "comment_type", "is_test", "key", "user_ip">>

RECURSIVE EncodeFrom(_, _)
EncodeFrom(params, keys) ==
    IF keys = <<>> THEN ""
    ELSE LET k == Head(keys)
             rest == EncodeFrom(params, Tail(keys))
         IN  IF k \in DOMAIN params
             THEN k \o "=" \o QueryEscape(params[k])
                    \o (IF rest = "" THEN "" ELSE "&" \o rest)
             ELSE rest

Encode(params) == EncodeFrom(params, ValuesKeys)

\* url.Values.Del.
Del(params, k) == [n \in DOMAIN params \ {k} |-> params[n]]

\* buildRequestURL that never qualifies the host.
buildRequestURLBare(a, method, qualified) ==
    akismetScheme \o "://" \o escapeHost(akismetHost) \o "/"
        \o akismetVersion \o "/" \o method

\* API.buildRequestURL.
buildRequestURL(a, method, qualified) ==
    LET host == IF qualified THEN a.key \o "." \o akismetHost
                ELSE akismetHost
    IN  akismetScheme \o "://" \o escapeHost(host) \o "/" \o akismetVersion
            \o "/" \o method

\* strings.TrimSpace on the strings of the model.
TrimSpace(s) ==
    CASE s = " MyApp/2.0 "  -> "MyApp/2.0"
      [] s = " trackback " -> "trackback"
      [] s = "  "          -> ""
      [] OTHER             -> s

\* API.buildRequest: [r, err].  line is the request line Request.Write
\* starts with.
buildRequest(a, u, params) ==
    LET t == TrimSpace(a.UserAgent)
        ua == (IF t # "" THEN t \o " | " ELSE "") \o defaultUserAgent
    IN  IF u \in MalformedURLs
        THEN [r |-> [line |-> "", url |-> "", header |-> EmptyMap,
                     body |-> NewBody("")],
              err |-> newRequestError(u)]
        ELSE [r |-> [line |-> "POST " \o u, url |-> u,
                     header |-> ("User-Agent" :> ua @@
                         "Content-Type" :> "application/x-www-form-urlencoded"),
                     body |-> NewBody(Encode(params))],
              err |-> NoErr]

\* API.execute with the writes of Output failing at write f and the default
\* client answering with outcome o.  [result, header, err]: what it returns;
\* params: the caller's values after the return; sent: what the default
\* client received; text: what was written to Output; writes: the number
\* of writes made to it.
API_execute(a, u, params, f, o) ==
    LET test == a.TestMode /\ Get(params, "is_test") = ""
        p1 == IF test THEN merge(params, "is_test" :> "1") ELSE params
        after == IF test THEN Del(p1, "is_test") ELSE p1
        b == buildRequest(a, u, p1)
        w0 == IF a.Output THEN NewWriter(f) ELSE NoWriter
        l1 == API_log(a, w0, b.r, "REQUEST")
        wire == [url |-> l1.r.url, header |-> l1.r.header,
                 body |-> ReadAll(l1.r.body).data]
        resp == [line |-> StatusLine(o.code), header |-> o.header,
                 body |-> IF o.kind = "readerr" THEN BrokenBody
                          ELSE NewBody(o.body)]
        l2 == API_log(a, l1.w, resp, "RESPONSE")
        rd == ReadAll(l2.r.body)
        fail(e, reqs, w) ==
            [result |-> "", header |-> EmptyMap, err |-> e, params |-> after,
             sent |-> reqs, text |-> w.text, writes |-> w.n]
    IN  IF b.err # NoErr THEN fail(b.err, <<>>, w0)
        ELSE IF l1.err # NoErr THEN fail(l1.err, <<>>, l1.w)
        ELSE IF o.kind = "doerr" THEN fail(o.err, <<wire>>, l1.w)
        ELSE IF l2.err # NoErr THEN fail(l2.err, <<wire>>, l2.w)
        ELSE IF rd.err # NoErr THEN fail(rd.err, <<wire>>, l2.w)
        ELSE [result |-> rd.data, header |-> l2.r.header, err |-> NoErr,
              params |-> after, sent |-> <<wire>>, text |-> l2.w.text,
              writes |-> l2.w.n]

\* The environment of an API value.
APIKeys == {"", "123456789abc", "bad key"}

APISites == {"http://example.com"}

\* The user agent of the API value tried: one with spaces around it (the
\* constructors of Comment try the empty one).
APIUserAgents == {" MyApp/2.0 "}

\* Caller values: without is_test, with is_test set, with is_test empty.
APIParams == {("blog" :> "http://example.com" @@ "user_ip" :> "127.0.0.1"),
              ("blog" :> "http://example.com" @@ "is_test" :> "1"),
              ("is_test" :> "" @@ "user_ip" :> "127.0.0.1")}

\* What the default client answers: the bodies without a header, spam to
\* discard, a refusal with a hint, a body under another status code, no
\* response, a response whose body cannot be read.
APIOutcomes ==
    {o \in Responses :
        \/ o.code = 200 /\ o.header = HeaderOf(Absent, Absent)
        \/ o.code = 200 /\ o.body = "true"
                        /\ o.header = HeaderOf(Absent, "discard")
        \/ o.code = 200 /\ o.body = "invalid"
                        /\ o.header = HeaderOf("bad key", Absent)
        \/ o.code = 500 /\ o.body = "true"
                        /\ o.header = HeaderOf(Absent, Absent)}
    \cup {DoErr, ReadErr}

\* The write of Output that fails during a call (0: none).
Failures == IF api.Output THEN 0..MaxWrites ELSE {0}

\* The observer's record of a call that went through execute: the call and
\* its arguments, the key the API held before it, the caller's values after
\* it, the failing write and the outcome chosen, what execute and the call
\* returned, whether a VerifyKey call had returned nil before it (and has
\* by now), and whether the call before it was a VerifyKey that failed.
Executed(name, k, params, f, o, e, status, err) ==
    [n |-> acall.n + 1, name |-> name, key |-> k, held |-> api.key,
     params |-> params, after |-> e.params, f |-> f, o |-> o,
     sent |-> e.sent, text |-> e.text, writes |-> e.writes,
     result |-> e.result, header |-> e.header, status |-> status,
     err |-> err, wonBefore |-> acall.won,
     won |-> acall.won \/ (name = "VerifyKey" /\ err = NoErr),
     afterFailed |-> acall.n >= 1 /\ acall.name = "VerifyKey"
                        /\ acall.err # NoErr]

\* The observer's record of a call refused before execute.
Refused(name, params) ==
    [n |-> acall.n + 1, name |-> name, key |-> "", held |-> api.key,
     params |-> params, after |-> params, f |-> 0, o |-> DoErr,
     sent |-> <<>>, text |-> <<>>, writes |-> 0,
     result |-> "", header |-> EmptyMap, status |-> StatusUnknown,
     err |-> errKeyNotVerified, wonBefore |-> acall.won, won |-> acall.won,
     afterFailed |-> acall.n >= 1 /\ acall.name = "VerifyKey"
                        /\ acall.err # NoErr]

\* VerifyKey that stores the key whenever execute returned a response.
VerifyKeyStoresAnyResult ==
    /\ acall.n < MaxAPICalls
    /\ \E k \in APIKeys, s \in APISites, f \in Failures, o \in APIOutcomes :
         \E e \in {API_execute(api, buildRequestURL(api, "verify-key", FALSE),
                               ("key" :> k @@ "blog" :> s), f, o)} :
            LET err == IF e.err # NoErr THEN e.err
                       ELSE IF e.result = "valid" THEN NoErr
                       ELSE NewAPIError("Akismet didn't verify key " \o k,
                                        e.result, e.header)
            IN  /\ api' = IF e.err = NoErr
                          THEN [api EXCEPT !.key = k] ELSE api
                /\ acall' = Executed("VerifyKey", k,
                                     ("key" :> k @@ "blog" :> s), f, o, e,
                                     StatusUnknown, err)

\* API.VerifyKey(key, site).
VerifyKey ==
    /\ acall.n < MaxAPICalls
    /\ \E k \in APIKeys, s \in APISites, f \in Failures, o \in APIOutcomes :
         \E e \in {API_execute(api, buildRequestURL(api, "verify-key", FALSE),
                               ("key" :> k @@ "blog" :> s), f, o)} :
            LET err == IF e.err # NoErr THEN e.err
                       ELSE IF e.result = "valid" THEN NoErr
                       ELSE NewAPIError("Akismet didn't verify key " \o k,
                                        e.result, e.header)
            IN  /\ api' = IF e.err = NoErr /\ e.result = "valid"
                          THEN [api EXCEPT !.key = k] ELSE api
                /\ acall' = Executed("VerifyKey", k,
                                     ("key" :> k @@ "blog" :> s), f, o, e,
                                     StatusUnknown, err)

\* API.CheckComment(params).
CheckComment ==
    /\ acall.n < MaxAPICalls
    /\ \E params \in APIParams :
         IF api.key = ""
         THEN acall' = Refused("CheckComment", params)
         ELSE \E f \in Failures, o \in APIOutcomes :
              \E e \in {API_execute(api,
                            buildRequestURL(api, "comment-check", TRUE),
                            params, f, o)} :
                 LET r == IF e.err # NoErr
                          THEN [status |-> StatusUnknown, err |-> e.err]
                          ELSE IF e.result = "true"
                          THEN [status |->
                                  IF Get(e.header, "X-Akismet-Pro-Tip")
                                        = "discard"
                                  THEN StatusDefiniteSpam
                                  ELSE StatusProbableSpam,
                                err |-> NoErr]
                          ELSE IF e.result = "false"
                          THEN [status |-> StatusNotSpam, err |-> NoErr]
                          ELSE [status |-> StatusUnknown,
                                err |-> NewAPIError(
                                    "Akismet comment check failed",
                                    e.result, e.header)]
                 IN  acall' = Executed("CheckComment", api.key, params, f, o,
                                       e, r.status, r.err)
    /\ UNCHANGED api

\* strings.Replace(method, "-", " ", -1) on the two submit methods.
Replace(method) ==
    IF method = "submit-spam" THEN "submit spam" ELSE "submit ham"

\* API.submit(method, params), called as name.
API_submit(name, method) ==
    /\ acall.n < MaxAPICalls
    /\ \E params \in APIParams :
         IF api.key = ""
         THEN acall' = Refused(name, params)
         ELSE \E f \in Failures, o \in APIOutcomes :
              \E e \in {API_execute(api, buildRequestURL(api, method, TRUE),
                                    params, f, o)} :
                 LET err == IF e.err # NoErr THEN e.err
                            ELSE IF e.result
                                 = "Thanks for making the web a better place."
                            THEN NoErr
                            ELSE NewAPIError(
                                "Akismet " \o Replace(method) \o " failed",
                                e.result, e.header)
                 IN  acall' = Executed(name, api.key, params, f, o, e,
                                       StatusUnknown, err)
    /\ UNCHANGED api

\* API.SubmitSpam(params).
API_SubmitSpam == API_submit("SubmitSpam", "submit-spam")

\* API.SubmitHam(params).
API_SubmitHam == API_submit("SubmitHam", "submit-ham")

\* A zero API value whose public fields the caller has set.
InitAPI ==
    /\ rev = "A"
    /\ key = ""
    /\ site = ""
    /\ wraps = <<>>
    /\ client = <<>>
    /\ verified = FALSE
    /\ ncalls = 0
    /\ log = <<>>
    /\ op = [name |-> "none", values |-> EmptyMap, wasVerified |-> FALSE,
             after |-> EmptyMap]
    /\ sent = <<>>
    /\ got = <<>>
    /\ ret = [status |-> StatusUnknown, err |-> NoErr]
    /\ procs = <<>>
    /\ trace = <<>>
    /\ api \in [key : {""}, UserAgent : APIUserAgents, TestMode : BOOLEAN,
                Output : BOOLEAN]
    /\ acall = NoCall
    /\ comment = NoComment
    /\ enc = NoEnc

NextAPI ==
    /\ \/ VerifyKey
       \/ CheckComment
       \/ API_SubmitSpam
       \/ API_SubmitHam
    /\ UNCHANGED <<rev, key, site, client, wraps, verified, ncalls, log, op,
                   sent, got, ret, procs, trace, comment, enc>>

SpecAPI == InitAPI /\ [][NextAPI]_vars

(***************************************************************************)
(* The Comment type of src/comment.go: an API value and the parameters of  *)
(* one comment.  comment is the Comment the caller holds, [made, params],  *)
(* made FALSE for the nil pointer; api is its field api, acall what an     *)
(* observer records of the last operation.                                 *)
(***************************************************************************)
_Site == "blog"
_Type == "comment_type"
_UserIP == "user_ip"
_Author == "comment_author"

\* The constructors: name, test mode, whether a user agent is given.
Constructors ==
    {[name |-> "NewComment", testMode |-> FALSE, ua |-> FALSE],
     [name |-> "NewCommentUA", testMode |-> FALSE, ua |-> TRUE],
     [name |-> "NewTestComment", testMode |-> TRUE, ua |-> FALSE],
     [name |-> "NewTestCommentUA", testMode |-> TRUE, ua |-> TRUE]}

ConstructorNames == {c.name : c \in Constructors}

CommentSites == {"", "http://example.com"}

CommentUserAgents == {"MyApp/1.0"}

\* What is handed to the setters: values, a padded value, blank strings.
TypeInputs == {"pingback", " trackback ", "  ", ""}

\* What the default client answers to the calls of a Comment.
CommentOutcomes ==
    {o \in APIOutcomes :
        \/ o.kind = "doerr"
        \/ /\ o.kind = "resp" /\ o.code = 200
           /\ o.header = HeaderOf(Absent, Absent)
           /\ o.body \in {"valid", "invalid", "true",
                          "Thanks for making the web a better place."}}

\* The failing write of the debug writer tried with those calls.
CommentFailures == IF api.Output THEN {0, 2} ELSE {0}

\* What VerifyKey makes of the execution e of its request on the API value
\* a: [api, e, err].
verifyKeyResult(a, k, e) ==
    [api |-> IF e.err = NoErr /\ e.result = "valid"
             THEN [a EXCEPT !.key = k] ELSE a,
     e |-> e,
     err |-> IF e.err # NoErr THEN e.err
             ELSE IF e.result = "valid" THEN NoErr
             ELSE NewAPIError("Akismet didn't verify key " \o k,
                              e.result, e.header)]

\* VerifyKey on the API value a, answered by o.
verifyKeyOn(a, k, s, o) ==
    verifyKeyResult(a, k,
                    API_execute(a, buildRequestURL(a, "verify-key", FALSE),
                                (_Site :> s @@ "key" :> k), 0, o))

\* The API value a Comment is constructed with.
newAPI(testMode, userAgent) ==
    [key |-> "", UserAgent |-> userAgent, TestMode |-> testMode,
     Output |-> FALSE]

\* What new returns once VerifyKey has returned v: the Comment and the
\* error, and the requests sent.
newResult(v, s) ==
    IF v.err # NoErr
    THEN [comment |-> NoComment, api |-> NoAPI, err |-> v.err,
          sent |-> v.e.sent]
    ELSE [comment |-> [made |-> TRUE,
                       params |-> (_Site :> s @@ _Type :> "comment")],
          api |-> v.api, err |-> NoErr, sent |-> v.e.sent]

\* new that returns the Comment whatever VerifyKey returned.
newUnverified(k, s, testMode, userAgent, o) ==
    newResult([verifyKeyOn(newAPI(testMode, userAgent), k, s, o)
                  EXCEPT !.err = NoErr], s)

\* new(key, site, testMode, userAgent) with the verify-key request answered
\* by o.
new(k, s, testMode, userAgent, o) ==
    newResult(verifyKeyOn(newAPI(testMode, userAgent), k, s, o), s)

\* The observer's record of an operation on a Comment.
Did(name, k, s, o, reqs, status, err) ==
    [n |-> 1, name |-> name, key |-> k, site |-> s, o |-> o, sent |-> reqs,
     before |-> comment.params, apiBefore |-> api, status |-> status,
     err |-> err, won |-> FALSE]

\* NewComment, NewCommentUA, NewTestComment, NewTestCommentUA, called
\* while the caller holds no Comment.
NewComment ==
    /\ ~comment.made
    /\ \E c \in Constructors, k \in APIKeys, s \in CommentSites,
          u \in CommentUserAgents, o \in CommentOutcomes :
          \E r \in {new(k, s, c.testMode, IF c.ua THEN u ELSE "", o)} :
             /\ comment' = r.comment
             /\ api' = r.api
             /\ acall' = Did(c.name, k, s, o, r.sent, StatusUnknown, r.err)

\* Comment.set(key, value), called as name.
set(name, k, value) ==
    /\ comment.made
    /\ comment' = IF TrimSpace(value) # ""
                  THEN [comment EXCEPT
                           !.params = merge(@, k :> TrimSpace(value))]
                  ELSE comment
    /\ acall' = Did(name, "", value, DoErr, <<>>, StatusUnknown, NoErr)
    /\ UNCHANGED api

SetType == \E s \in TypeInputs : set("SetType", _Type, s)

SetUserIP == set("SetUserIP", _UserIP, "127.0.0.1")

SetAuthor == set("SetAuthor", _Author, "alice")

\* Comment.DebugTo(writer), writer nil or not.
DebugTo ==
    /\ comment.made
    /\ \E w \in BOOLEAN :
          /\ api' = [api EXCEPT !.Output = w]
          /\ acall' = Did("DebugTo", "", "", DoErr, <<>>, StatusUnknown,
                          NoErr)
    /\ UNCHANGED comment

\* Reset that puts the comment type back to "comment".
ResetType ==
    /\ comment.made
    /\ comment' = [comment EXCEPT
                      !.params = (_Site :> Get(comment.params, _Site)
                                  @@ _Type :> "comment")]
    /\ acall' = Did("Reset", "", "", DoErr, <<>>, StatusUnknown, NoErr)
    /\ UNCHANGED api

\* Comment.Reset.
Reset ==
    /\ comment.made
    /\ comment' = [comment EXCEPT
                      !.params = (_Site :> Get(comment.params, _Site)
                                  @@ _Type :> Get(comment.params, _Type))]
    /\ acall' = Did("Reset", "", "", DoErr, <<>>, StatusUnknown, NoErr)
    /\ UNCHANGED api

\* Comment.Check, Comment.ReportSpam and Comment.ReportNotSpam: the call of
\* the API on &c.params.
CommentCall(name, method) ==
    /\ comment.made
    /\ IF api.key = ""
       THEN /\ acall' = Did(name, "", "", DoErr, <<>>, StatusUnknown,
                            errKeyNotVerified)
            /\ UNCHANGED comment
       ELSE \E f \in CommentFailures, o \in CommentOutcomes :
            \E e \in {API_execute(api, buildRequestURL(api, method, TRUE),
                                  comment.params, f, o)} :
               LET good == IF method = "comment-check" THEN {"true", "false"}
                           ELSE {"Thanks for making the web a better place."}
                   err == IF e.err # NoErr THEN e.err
                          ELSE IF e.result \in good THEN NoErr
                          ELSE NewAPIError("Akismet " \o method \o " failed",
                                           e.result, e.header)
                   status == IF method # "comment-check" \/ err # NoErr
                             THEN StatusUnknown
                             ELSE IF e.result = "false" THEN StatusNotSpam
                             ELSE IF Get(e.header, "X-Akismet-Pro-Tip")
                                        = "discard"
                             THEN StatusDefiniteSpam
                             ELSE StatusProbableSpam
               IN  /\ comment' = [comment EXCEPT !.params = e.params]
                   /\ acall' = Did(name, api.key, "", o, e.sent, status, err)
    /\ UNCHANGED api

CommentCheck == CommentCall("Check", "comment-check")

CommentReportSpam == CommentCall("ReportSpam", "submit-spam")

CommentReportNotSpam == CommentCall("ReportNotSpam", "submit-ham")

\* No Comment has been constructed.
InitComment ==
    /\ rev = "A"
    /\ key = ""
    /\ site = ""
    /\ wraps = <<>>
    /\ client = <<>>
    /\ verified = FALSE
    /\ ncalls = 0
    /\ log = <<>>
    /\ op = [name |-> "none", values |-> EmptyMap, wasVerified |-> FALSE,
             after |-> EmptyMap]
    /\ sent = <<>>
    /\ got = <<>>
    /\ ret = [status |-> StatusUnknown, err |-> NoErr]
    /\ procs = <<>>
    /\ trace = <<>>
    /\ api = NoAPI
    /\ acall = NoCall
    /\ comment = NoComment
    /\ enc = NoEnc

NextComment ==
    /\ \/ NewComment
       \/ SetType
       \/ SetUserIP
       \/ SetAuthor
       \/ DebugTo
       \/ Reset
       \/ CommentCheck
       \/ CommentReportSpam
       \/ CommentReportNotSpam
    /\ UNCHANGED <<rev, key, site, client, wraps, verified, ncalls, log, op,
                   sent, got, ret, procs, trace, enc>>

SpecComment == InitComment /\ [][NextComment]_vars

(***************************************************************************)
(* encodeParams byte by byte, with url.ParseQuery as its reader.  A string *)
(* is the sequence of its bytes here, so that escaping, joining and        *)
(* splitting are done as net/url does them.  enc holds the map being       *)
(* encoded (m), the encoded string (s) and what ParseQuery reads back.     *)
(***************************************************************************)
\* The longest parameter value tried.
MaxValueLen == 2

\* The bytes of the model: a letter, and the bytes that have a meaning in
\* a query string.
Bytes == {"a", " ", "&", "=", "%", "+"}

\* shouldEscape(c, encodeQueryComponent): letters, digits, "-", "_", "."
\* and "~" are kept, every other byte is escaped.
shouldEscape(c) == c \notin {"a", "b"}

\* The two upper case hex digits of a byte.
hexOf(c) ==
    CASE c = " " -> <<"2", "0">>
      [] c = "%" -> <<"2", "5">>
      [] c = "&" -> <<"2", "6">>
      [] c = "+" -> <<"2", "B">>
      [] c = "=" -> <<"3", "D">>

\* url.QueryEscape that leaves "+" as it is.
RECURSIVE QueryEscapeKeepsPlus(_)
QueryEscapeKeepsPlus(s) ==
    IF s = <<>> THEN <<>>
    ELSE LET c == Head(s)
         IN  (IF c = " " \/ c = "+" THEN <<"+">>
              ELSE IF shouldEscape(c) THEN <<"%">> \o hexOf(c)
              ELSE <<c>>) \o QueryEscapeKeepsPlus(Tail(s))

\* url.QueryEscape: a space becomes "+", an escaped byte "%" and its hex
\* digits.
RECURSIVE QueryEscapeBytes(_)
QueryEscapeBytes(s) ==
    IF s = <<>> THEN <<>>
    ELSE LET c == Head(s)
         IN  (IF c = " " THEN <<"+">>
              ELSE IF shouldEscape(c) THEN <<"%">> \o hexOf(c)
              ELSE <<c>>) \o QueryEscapeBytes(Tail(s))

\* The bytes whose hex digits the model can write.
Escapable == {" ", "%", "&", "+", "="}

\* url.QueryUnescape: [s, ok], ok FALSE for a "%" that is not followed by
\* two hex digits.
RECURSIVE QueryUnescape(_)
QueryUnescape(s) ==
    IF s = <<>> THEN [s |-> <<>>, ok |-> TRUE]
    ELSE IF Head(s) = "%"
    THEN IF Len(s) >= 3
            /\ \E c \in Escapable : hexOf(c) = <<s[2], s[3]>>
         THEN LET c == CHOOSE c \in Escapable : hexOf(c) = <<s[2], s[3]>>
                  r == QueryUnescape(SubSeq(s, 4, Len(s)))
              IN  [s |-> <<c>> \o r.s, ok |-> r.ok]
         ELSE [s |-> <<>>, ok |-> FALSE]
    ELSE LET r == QueryUnescape(Tail(s))
         IN  [s |-> <<IF Head(s) = "+" THEN " " ELSE Head(s)>> \o r.s,
              ok |-> r.ok]

\* The keys of the maps tried, in the order url.Values.Encode sorts them
\* in: a plain key and one with the separators in it.
EncKeys == << <<"a">>, <<"b", "&", "=">> >>

\* The loop of encodeParams followed by url.Values.Encode, on bytes: the
\* pairs with a non-empty value, escaped key "=" escaped value, joined
\* with "&".
RECURSIVE encodeBytesFrom(_, _)
encodeBytesFrom(params, keys) ==
    IF keys = <<>> THEN <<>>
    ELSE LET k == Head(keys)
             rest == encodeBytesFrom(params, Tail(keys))
         IN  IF k \in DOMAIN params /\ params[k] # <<>>
             THEN QueryEscapeBytes(k) \o <<"=">> \o QueryEscapeBytes(params[k])
                    \o (IF rest = <<>> THEN <<>> ELSE <<"&">> \o rest)
             ELSE rest

encodeParamsBytes(params) == encodeBytesFrom(params, EncKeys)

\* strings.Cut(s, sep): s around the first sep.
Cut(s, sep) ==
    IF \E i \in 1..Len(s) : s[i] = sep
    THEN LET i == CHOOSE i \in 1..Len(s) :
                     s[i] = sep /\ \A j \in 1..(i - 1) : s[j] # sep
         IN  [before |-> SubSeq(s, 1, i - 1),
              after |-> SubSeq(s, i + 1, Len(s))]
    ELSE [before |-> s, after |-> <<>>]

\* url.Values: the values of every key, in the order they were added.
NoValues == [vals |-> [k \in {} |-> <<>>], ok |-> TRUE]

\* v[key] = append(v[key], value).
AddValue(v, k, value) ==
    [v EXCEPT !.vals = [n \in DOMAIN v.vals \cup {k} |->
                          IF n = k
                          THEN (IF k \in DOMAIN v.vals THEN v.vals[k]
                                ELSE <<>>) \o <<value>>
                          ELSE v.vals[n]]]

\* The loop of url.ParseQuery (parseQuery): the query is cut at every "&",
\* an empty piece is skipped, a piece is cut at its first "=" and both
\* halves are unescaped; a piece that cannot be unescaped is dropped and
\* makes ParseQuery return an error.
RECURSIVE parseQuery(_, _)
parseQuery(v, query) ==
    IF query = <<>> THEN v
    ELSE LET c == Cut(query, "&")
             kv == Cut(c.before, "=")
             k == QueryUnescape(kv.before)
             value == QueryUnescape(kv.after)
         IN  IF c.before = <<>> THEN parseQuery(v, c.after)
             ELSE IF ~k.ok \/ ~value.ok
             THEN parseQuery([v EXCEPT !.ok = FALSE], c.after)
             ELSE parseQuery(AddValue(v, k.s, value.s), c.after)

ParseQuery(query) == parseQuery(NoValues, query)

\* The strings of at most n bytes.
RECURSIVE BytesUpTo(_)
BytesUpTo(n) ==
    IF n = 0 THEN {<<>>}
    ELSE BytesUpTo(n - 1) \cup
         {Append(s, c) : s \in {t \in BytesUpTo(n - 1) : Len(t) = n - 1},
                         c \in Bytes}

\* The parameter maps tried: every map over some of the keys.
EncMaps ==
    UNION {[D -> BytesUpTo(MaxValueLen)] :
              D \in SUBSET {EncKeys[i] : i \in DOMAIN EncKeys}}

\* encodeParams(enc.m).
EncodeParams ==
    /\ enc.pc = "start"
    /\ enc' = [enc EXCEPT !.pc = "encoded", !.s = encodeParamsBytes(enc.m)]

\* url.ParseQuery of the encoded string.
Decode ==
    /\ enc.pc = "encoded"
    /\ enc' = [enc EXCEPT !.pc = "decoded", !.back = ParseQuery(enc.s)]

InitEnc ==
    /\ rev = "A"
    /\ key = ""
    /\ site = ""
    /\ wraps = <<>>
    /\ client = <<>>
    /\ verified = FALSE
    /\ ncalls = 0
    /\ log = <<>>
    /\ op = [name |-> "none", values |-> EmptyMap, wasVerified |-> FALSE,
             after |-> EmptyMap]
    /\ sent = <<>>
    /\ got = <<>>
    /\ ret = [status |-> StatusUnknown, err |-> NoErr]
    /\ procs = <<>>
    /\ trace = <<>>
    /\ api = NoAPI
    /\ acall = NoCall
    /\ comment = NoComment
    /\ enc \in [pc : {"start"}, m : EncMaps, s : {<<>>}, back : {NoValues}]

NextEnc ==
    /\ \/ EncodeParams
       \/ Decode
    /\ UNCHANGED <<rev, key, site, client, wraps, verified, ncalls, log, op,
                   sent, got, ret, procs, trace, api, acall, comment>>

SpecEnc == InitEnc /\ [][NextEnc]_vars

(***************************************************************************)
(* Vocabulary of the properties.                                           *)
(***************************************************************************)
VerifyURL == "https://rest.akismet.com/1.1/verify-key"

IsVerifyReq(r) == r.url = VerifyURL

\* The number of verify-key requests in a sequence of requests.
NumVerify(reqs) == Cardinality({i \in DOMAIN reqs : IsVerifyReq(reqs[i])})

\* A verify-key request was answered 200 "valid" among the first n requests
\* of the Checker.
ValidWithin(n) ==
    \E j \in 1..n : IsVerifyReq(log[j]) /\ log[j].valid

\* The requests of the Checker that preceded the last public call.
LogBefore == Len(log) - Len(sent)

LastOut == got[Len(got)]

LastReq == sent[Len(sent)]

Called == ncalls >= 1

(***************************************************************************)
(* C1 as stated: the first public call sends exactly one verify-key        *)
(* request and every later call on the same Checker sends none.            *)
(***************************************************************************)
C1_FirstCallOnly ==
    /\ ncalls = 1 => NumVerify(sent) = 1
    /\ ncalls > 1 => NumVerify(sent) = 0

(***************************************************************************)
(* C1 amended: the first public call sends exactly one verify-key request; *)
(* a call made while no verify-key request has yet been answered 200       *)
(* "valid" sends exactly one as well, and a call made after such an answer *)
(* sends none, so that no verify-key request follows a 200 "valid" answer. *)
(***************************************************************************)
C1_VerifyOnceValid ==
    /\ ncalls = 1 => NumVerify(sent) = 1
    /\ Called => NumVerify(sent) = (IF ValidWithin(LogBefore) THEN 0 ELSE 1)
    /\ \A i, j \in DOMAIN log :
         (i < j /\ IsVerifyReq(log[i]) /\ log[i].valid) => ~IsVerifyReq(log[j])

\* A second call on a Checker verified by the first call: no verify-key.
C1_Witness ==
    /\ ncalls = 2
    /\ ValidWithin(LogBefore)
    /\ NumVerify(log) = 1
    /\ Len(sent) = 1

(***************************************************************************)
(* C2: the verification gate.  Every comment-check, submit-ham or          *)
(* submit-spam request that reached the client is preceded by a verify-key *)
(* request of the same Checker that was answered 200 "valid".              *)
(***************************************************************************)
C2_VerificationGate ==
    \A i \in DOMAIN log : ~IsVerifyReq(log[i]) => ValidWithin(i - 1)

\* A verification failed, the next call verified and sent its request.
C2_Witness ==
    /\ Len(log) = 3
    /\ IsVerifyReq(log[1]) /\ ~log[1].valid
    /\ IsVerifyReq(log[2]) /\ log[2].valid
    /\ ~IsVerifyReq(log[3])

(***************************************************************************)
(* The errors the properties expect, written out field by field.           *)
(***************************************************************************)
Hint(o) ==
    IF "X-Akismet-Debug-Help" \in DOMAIN o.header
    THEN o.header["X-Akismet-Debug-Help"] ELSE ""

TipIsDiscard(o) ==
    /\ "X-Akismet-Pro-Tip" \in DOMAIN o.header
    /\ o.header["X-Akismet-Pro-Tip"] = "discard"

\* The last public call began on an Unverified Checker: its first request
\* is the verify-key request and got[1] is the answer to it.
VerifiedInCall == Called /\ ~op.wasVerified

\* The last request of the last call is the comment-check / submit request.
CallAnswered == Called /\ sent # <<>> /\ ~IsVerifyReq(LastReq)

IsResponse(o) == o.kind = "resp"

\* The API call of the last public operation, by revision.
OpCall ==
    CASE op.name = "Check" -> APICheckComment
      [] op.name \in {"SubmitHam", "ReportHam"} -> APISubmitHam
      [] OTHER -> APISubmitSpam

OpMethod ==
    CASE op.name = "Check" -> "comment-check"
      [] op.name \in {"SubmitHam", "ReportHam"} -> "submit-ham"
      [] OTHER -> "submit-spam"

\* The verification-failure error for a rejected key.
RejectedKeyError(o) ==
    IF rev = "A"
    THEN [kind |-> "AuthError", Key |-> key, Site |-> site,
          Result |-> o.body, Help |-> Hint(o)]
    ELSE [kind |-> "KeyError", Key |-> key, Site |-> site,
          ValError |-> [kind |-> "ValError", Method |-> "verify-key",
                        Response |-> o.body, Hint |-> Hint(o)]]

\* The call-failure error of a call answered 200 with an unexpected body.
CallFailure(o) ==
    IF rev = "A"
    THEN [kind |-> "APIError", Call |-> OpCall, Result |-> o.body,
          Help |-> Hint(o)]
    ELSE [kind |-> "ValError", Method |-> OpMethod, Response |-> o.body,
          Hint |-> Hint(o)]

\* The error for a request answered with a status other than 200.
NonOKError(c, r, o) ==
    IF rev = "A"
    THEN [kind |-> "APIError", Call |-> c,
          Result |-> "Status " \o StatusLine(o.code), Help |-> Hint(o)]
    ELSE [kind |-> "errorString",
          s |-> StatusLine(o.code) \o " returned from " \o r.url]

\* The response field of a structured error, "<none>" when it has none.
ResponseField(e) ==
    CASE e.kind \in {"APIError", "AuthError"} -> e.Result
      [] e.kind = "ValError" -> e.Response
      [] e.kind = "KeyError" -> e.ValError.Response
      [] OTHER -> "<none>"

IsVerificationFailure(e) == e.kind \in {"AuthError", "KeyError"}

(***************************************************************************)
(* C3: a verify-key response with status 200 and a body other than "valid" *)
(* makes the public call return the verification-failure error with the    *)
(* key, the site, the body and the X-Akismet-Debug-Help hint ("" when the  *)
(* header is absent); the Checker stays Unverified and the next public     *)
(* call sends a verify-key request again.                                  *)
(***************************************************************************)
C3_Rejected ==
    /\ VerifiedInCall
    /\ IsResponse(got[1]) /\ got[1].code = 200 /\ got[1].body # "valid"

C3_State ==
    C3_Rejected => /\ ret.err = RejectedKeyError(got[1])
                   /\ ~verified

C3_Step ==
    (C3_Rejected /\ ncalls' = ncalls + 1)
        => /\ IsVerifyReq(sent'[1])
           /\ Len(log') > Len(log)
           /\ IsVerifyReq(log'[Len(log) + 1])

C3_RejectedKey == []C3_State /\ [][C3_Step]_vars

\* Scenario 5 on a retry: the first call failed to verify, the second call
\* verified again and was answered "invalid" with the hint "bad key".
C3_Witness ==
    /\ ncalls = 2
    /\ Len(log) = 2
    /\ C3_Rejected
    /\ got[1].body = "invalid"
    /\ Hint(got[1]) = "bad key"
    /\ IsVerificationFailure(ret.err)

(***************************************************************************)
(* C4: verified is false at construction; it changes only from false to    *)
(* true, only in a call whose verify-key request was answered 200 "valid"; *)
(* it is never reset, and a call on a Verified Checker, failed or not,     *)
(* sends no verify-key request.                                            *)
(***************************************************************************)
C4_State ==
    /\ ncalls = 0 => ~verified
    /\ verified <=> ValidWithin(Len(log))

C4_Step ==
    /\ verified => verified'
    /\ (~verified /\ verified')
          => (IsVerifyReq(sent'[1]) /\ IsValidAnswer(got'[1]))
    /\ (verified /\ ncalls' = ncalls + 1)
          => (NumVerify(sent') = 0 /\ Len(sent') <= 1)

C4_VerifiedSticky == []C4_State /\ [][C4_Step]_vars

\* A call on an already Verified Checker failed: the flag is still set.
C4_Witness ==
    /\ Called
    /\ op.wasVerified
    /\ ret.err # NoErr
    /\ verified
    /\ NumVerify(sent) = 0

(***************************************************************************)
(* C5: when the comment-check request of Check is answered with status 200 *)
(* Check returns (StatusHam, nil) for the body "false" whatever the pro    *)
(* tip, (StatusDefiniteSpam, nil) for "true" with the pro tip "discard",   *)
(* (StatusProbableSpam, nil) for "true" with no or another pro tip, and    *)
(* for every other body StatusUnknown with the call-failure error that     *)
(* carries the comment-check call, the body and the debug hint.            *)
(***************************************************************************)
C5_Answered ==
    /\ CallAnswered
    /\ op.name = "Check"
    /\ IsResponse(LastOut) /\ LastOut.code = 200

C5_CheckResult ==
    C5_Answered =>
        /\ LastOut.body = "false"
              => ret = [status |-> StatusHam, err |-> NoErr]
        /\ (LastOut.body = "true" /\ TipIsDiscard(LastOut))
              => ret = [status |-> StatusDefiniteSpam, err |-> NoErr]
        /\ (LastOut.body = "true" /\ ~TipIsDiscard(LastOut))
              => ret = [status |-> StatusProbableSpam, err |-> NoErr]
        /\ LastOut.body \notin {"true", "false"}
              => ret = [status |-> StatusUnknown, err |-> CallFailure(LastOut)]

\* Scenario 2 on a Verified Checker: "true" with the pro tip "discard".
C5_Witness ==
    /\ C5_Answered
    /\ op.wasVerified
    /\ LastOut.body = "true"
    /\ TipIsDiscard(LastOut)
    /\ ret.status = StatusDefiniteSpam

(***************************************************************************)
(* C6: on every path of Check the status is StatusUnknown if and only if   *)
(* the error is not nil.                                                   *)
(***************************************************************************)
C6_UnknownIffError ==
    (Called /\ op.name = "Check")
        => /\ ret.status \in {StatusUnknown, StatusHam, StatusProbableSpam,
                              StatusDefiniteSpam}
           /\ ret.status = StatusUnknown <=> ret.err # NoErr

\* Check was answered 200 with a body that is neither "true" nor "false".
C6_Witness ==
    /\ C5_Answered
    /\ LastOut.body = "invalid"
    /\ ret.status = StatusUnknown
    /\ ret.err # NoErr

(***************************************************************************)
(* C7: when the submit-ham or submit-spam request is answered with status  *)
(* 200, SubmitHam / SubmitSpam (ReportHam / ReportSpam) return nil if and  *)
(* only if the body is the thank-you sentence; for every other body they   *)
(* return the call-failure error with their own call, the body and the     *)
(* debug hint.                                                             *)
(***************************************************************************)
C7_Answered ==
    /\ CallAnswered
    /\ op.name \in {"SubmitHam", "SubmitSpam", "ReportHam", "ReportSpam"}
    /\ IsResponse(LastOut) /\ LastOut.code = 200

C7_SubmitResult ==
    C7_Answered =>
        /\ ret.err = NoErr
              <=> LastOut.body = "Thanks for making the web a better place."
        /\ LastOut.body # "Thanks for making the web a better place."
              => ret.err = CallFailure(LastOut)

\* A submit-ham answered 200 "invalid" with a hint: the error names it.
C7_Witness ==
    /\ C7_Answered
    /\ op.name \in {"SubmitHam", "ReportHam"}
    /\ LastOut.body = "invalid"
    /\ Hint(LastOut) = "bad key"
    /\ (ret.err.kind = "APIError" => ret.err.Call = APISubmitHam)
    /\ (ret.err.kind = "ValError" => ret.err.Method = "submit-ham")
    /\ ret.err.kind \in {"APIError", "ValError"}

(***************************************************************************)
(* C8 as stated: for every call type a response with a status other than  *)
(* 200 is a call failure whose response field is "Status " followed by the *)
(* status line.                                                            *)
(***************************************************************************)
C8_NonOK == Called /\ sent # <<>> /\ IsResponse(LastOut) /\ LastOut.code # 200

C9_NonOKVerify ==
    /\ VerifiedInCall
    /\ IsResponse(got[1]) /\ got[1].code # 200

C9_VerificationFailureKind ==
    C9_NonOKVerify => (IsVerificationFailure(ret.err) /\ ~verified)

(***************************************************************************)
(* C9 amended: a verify-key request answered with a status other than 200  *)
(* makes the public call return an error that is not the                   *)
(* verification-failure kind and carries neither the key nor the site:     *)
(* with Checker.execute the call failure of the verify-key call with the   *)
(* response "Status " and the status line, with Checker.call a plain error *)
(* naming the status line and the URL.  The Checker stays Unverified.      *)
(***************************************************************************)
C9_NonOKVerifyError ==
    C9_NonOKVerify
        => /\ ~IsVerificationFailure(ret.err)
           /\ ret.err = NonOKError(APIVerifyKey, sent[1], got[1])
           /\ "Key" \notin DOMAIN ret.err
           /\ "Site" \notin DOMAIN ret.err
           /\ ~verified

\* The verify-key request was answered 500 although the body said "valid".
C9_Witness ==
    /\ C9_NonOKVerify
    /\ got[1].code = 500
    /\ got[1].body = "valid"
    /\ ret.err # NoErr
    /\ ~verified

(***************************************************************************)
(* C10: when the verification step of a public call fails (client error,   *)
(* unreadable body, status other than 200, rejected key) the call returns  *)
(* the error of that step unchanged, Check together with StatusUnknown,    *)
(* and the verify-key request is the only request of the call.             *)
(***************************************************************************)
C10_VerifyFailed == VerifiedInCall /\ ~IsValidAnswer(got[1])

C10_VerifyErrorAsIs ==
    C10_VerifyFailed
        => /\ Len(sent) = 1
           /\ IsVerifyReq(sent[1])
           /\ ret.status = StatusUnknown
           /\ ret.err # NoErr
           /\ ~IsResponse(got[1]) => ret.err = got[1].err
           /\ (IsResponse(got[1]) /\ got[1].code # 200)
                 => ret.err = NonOKError(APIVerifyKey, sent[1], got[1])
           /\ (IsResponse(got[1]) /\ got[1].code = 200)
                 => ret.err = RejectedKeyError(got[1])

\* Check on an Unverified Checker, the client failed on the verify-key
\* request: its error comes back and nothing else was sent.
C10_Witness ==
    /\ C10_VerifyFailed
    /\ op.name = "Check"
    /\ got[1].kind = "doerr"
    /\ ret.err = got[1].err
    /\ Len(sent) = 1

(***************************************************************************)
(* The form body the properties expect, written out pair by pair.          *)
(***************************************************************************)
\* The percent-encoding of the sites of the model.
Escaped(s) ==
    IF s = "http://example.com" THEN "http%3A%2F%2Fexample.com"
    ELSE IF s = "http://other.example" THEN "http%3A%2F%2Fother.example"
    ELSE s

\* The blog value of a request made with the caller's values: the caller's
\* entry when there is one, the configured site otherwise.
BlogOf(values) == IF "blog" \in DOMAIN values THEN values["blog"] ELSE site

\* The caller's pairs other than blog, each preceded by "&".
RestOf(values) ==
    (IF "key" \in DOMAIN values THEN "&key=" \o values["key"] ELSE "")
    \o (IF "user_ip" \in DOMAIN values THEN "&user_ip=" \o values["user_ip"]
        ELSE "")

\* The same pairs when no blog pair precedes them.
RestAlone(values) ==
    IF "key" \in DOMAIN values THEN "key=" \o values["key"]
    ELSE IF "user_ip" \in DOMAIN values THEN "user_ip=" \o values["user_ip"]
    ELSE ""

\* The requests of the last public call that are not verify-key requests.
CallRequests == {i \in DOMAIN sent : ~IsVerifyReq(sent[i])}

(***************************************************************************)
(* C11 as stated: every comment-check, submit-ham and submit-spam request  *)
(* body contains blog=<the configured site>, or blog=<the caller's blog    *)
(* entry> when the caller's values have one; with nil or empty values the  *)
(* body is exactly blog=<site>.                                            *)
(***************************************************************************)
C11_BlogAlwaysSent ==
    \A i \in CallRequests :
        sent[i].body = "blog=" \o Escaped(BlogOf(op.values)) \o RestOf(op.values)

(***************************************************************************)
(* C11 amended: the request body is built from the caller's values merged  *)
(* over the default blog = site, the caller's blog entry winning.  When    *)
(* the resulting blog value is not empty the body contains the pair        *)
(* blog=<value>, joined by "&" with the caller's other pairs in key order; *)
(* when it is empty (an empty configured site, or a caller's blog entry    *)
(* that is the empty string) no blog pair is sent.  With nil or empty      *)
(* caller values the body is exactly blog=<site> for a non-empty site and  *)
(* the empty string for an empty site; no body ends with "&".              *)
(***************************************************************************)
C11_BlogDefault ==
    \A i \in CallRequests :
        /\ BlogOf(op.values) # ""
              => sent[i].body = "blog=" \o Escaped(BlogOf(op.values))
                                    \o RestOf(op.values)
        /\ BlogOf(op.values) = "" => sent[i].body = RestAlone(op.values)
        /\ (op.values = EmptyMap /\ site # "")
              => sent[i].body = "blog=" \o Escaped(site)
        /\ (op.values = EmptyMap /\ site = "") => sent[i].body = ""

\* The caller's blog entry replaced the configured site in the request.
C11_Witness ==
    /\ CallRequests # {}
    /\ site = "http://example.com"
    /\ op.values = ("blog" :> "http://other.example")
    /\ \A i \in CallRequests : sent[i].body = "blog=http%3A%2F%2Fother.example"

(***************************************************************************)
(* C12 as stated: for every API key the verify-key request goes to the     *)
(* unqualified host and every comment-check, submit-ham and submit-spam    *)
(* request to the host qualified with the Checker's key,                   *)
(* https://<key>.rest.akismet.com/1.1/<method>.                            *)
(***************************************************************************)
\* The request at position i of the last call is its verify-key request.
IsVerifyStep(i) == i = 1 /\ ~op.wasVerified

C12_KeyQualified ==
    \A i \in DOMAIN sent :
        IF IsVerifyStep(i)
        THEN sent[i].url = "https://rest.akismet.com/1.1/verify-key"
        ELSE sent[i].url = "https://" \o key \o ".rest.akismet.com/1.1/" \o OpMethod

(***************************************************************************)
(* C12 amended: the verify-key request always goes to the unqualified      *)
(* host.  For a non-empty key every comment-check, submit-ham and          *)
(* submit-spam request goes to https://<key>.rest.akismet.com/1.1/<method>.*)
(* For the empty key endpoint (Check / SubmitHam / SubmitSpam) still puts  *)
(* the "." in front of the host, while buildURL (Check / ReportHam /       *)
(* ReportSpam) leaves the host unqualified.                                *)
(***************************************************************************)
C12_HostByKey ==
    \A i \in DOMAIN sent :
        /\ IsVerifyStep(i)
              => sent[i].url = "https://rest.akismet.com/1.1/verify-key"
        /\ (~IsVerifyStep(i) /\ key # "")
              => sent[i].url = "https://" \o key \o ".rest.akismet.com/1.1/"
                                   \o OpMethod
        /\ (~IsVerifyStep(i) /\ key = "" /\ rev = "A")
              => sent[i].url = "https://.rest.akismet.com/1.1/" \o OpMethod
        /\ (~IsVerifyStep(i) /\ key = "" /\ rev = "B")
              => sent[i].url = "https://rest.akismet.com/1.1/" \o OpMethod

\* One call sent both requests: verify-key unqualified, submit-spam on the
\* host of the key.
C12_Witness ==
    /\ Len(sent) = 2
    /\ key = "123456789abc"
    /\ sent[1].url = "https://rest.akismet.com/1.1/verify-key"
    /\ sent[2].url = "https://123456789abc.rest.akismet.com/1.1/submit-spam"

(***************************************************************************)
(* Vocabulary of the properties about decorated clients.                   *)
(***************************************************************************)
\* The headers request / newRequest put on every request.
DefaultHeaders ==
    ("Content-Type" :> "application/x-www-form-urlencoded"
     @@ "User-Agent" :> "Gokismet/3.0")

\* The header names some decorator sets.
WrappedNames == UNION {DOMAIN wraps[j] : j \in DOMAIN wraps}

\* The decorators that set the header n, by their position in wraps: 1 is
\* the first one applied, next to the base client; Len(wraps) is the
\* outermost, the one the Checker calls.
Setters(n) == {j \in DOMAIN wraps : n \in DOMAIN wraps[j]}

\* The same decorators by their position in the order they run in.
Runners(n) == {j \in DOMAIN client : n \in DOMAIN client[j]}

Highest(S) == CHOOSE j \in S : \A k \in S : k <= j

Lowest(S) == CHOOSE j \in S : \A k \in S : j <= k

(***************************************************************************)
(* C13 as stated: when several chained decorators set the same header, the *)
(* request that reaches the base transport carries the value of the        *)
(* outermost of them, the wrapper the Checker calls first.                 *)
(***************************************************************************)
C13_OutermostWins ==
    \A i \in DOMAIN sent : \A n \in WrappedNames :
        Cardinality(Setters(n)) > 1
            => sent[i].header[n] = wraps[Highest(Setters(n))][n]

(***************************************************************************)
(* C13 amended: when several chained decorators set the same header, the   *)
(* request that reaches the base transport carries the value of the        *)
(* innermost of them, the one wrapped first and nearest to the base        *)
(* transport; the outermost decorator's value is overwritten by every      *)
(* decorator inside it that sets the same name.                            *)
(***************************************************************************)
C13_InnermostWins ==
    \A i \in DOMAIN sent : \A n \in WrappedNames :
        Cardinality(Setters(n)) > 1
            => sent[i].header[n] = wraps[Lowest(Setters(n))][n]

\* User-Agent "A" wrapped first, User-Agent "B" around it: "A" is sent.
C13_Witness ==
    /\ Len(sent) >= 1
    /\ Len(wraps) = 2
    /\ wraps[1] = ("User-Agent" :> "A")
    /\ "User-Agent" \in DOMAIN wraps[2] /\ wraps[2]["User-Agent"] = "B"
    /\ sent[1].header["User-Agent"] = "A"

(***************************************************************************)
(* C14: for any chain of decorators, a header that several of them set     *)
(* reaches the base transport with the value of the decorator closest to   *)
(* the transmission, the last one to run before the base transport's Do.   *)
(***************************************************************************)
C14_ClosestToTransportWins ==
    \A i \in DOMAIN sent : \A n \in DOMAIN sent[i].header :
        Runners(n) # {}
            => sent[i].header[n] = client[Highest(Runners(n))][n]

\* A chain of three: the Checker calls the decorator that sets "A", the one
\* that sets "B" runs last; "B" is sent.
C14_Witness ==
    /\ Len(sent) >= 1
    /\ Len(client) = 3
    /\ "User-Agent" \in DOMAIN client[1] /\ client[1]["User-Agent"] = "A"
    /\ "User-Agent" \in DOMAIN client[3] /\ client[3]["User-Agent"] = "B"
    /\ sent[Len(sent)].header["User-Agent"] = "B"

(***************************************************************************)
(* C15: behind WrapClient every request of the Checker, the verify-key     *)
(* request as well as the request that follows it, carries every header    *)
(* the decorators name, with a decorator's value also where the library    *)
(* has a default of that name; the defaults no decorator names are kept;   *)
(* and the Checker returns what it returns for the base client's response  *)
(* or error on a bare client.                                              *)
(***************************************************************************)
C15_Headers(h) ==
    /\ DOMAIN h = WrappedNames \cup DOMAIN DefaultHeaders
    /\ \A n \in WrappedNames : h[n] \in {wraps[j][n] : j \in Setters(n)}
    /\ \A n \in DOMAIN DefaultHeaders \ WrappedNames : h[n] = DefaultHeaders[n]

C15_Result ==
    /\ LastOut.kind = "doerr" => ret.err = LastOut.err
    /\ (IsResponse(LastOut) /\ IsVerifyReq(LastReq))
          => ret.err = RejectedKeyError(LastOut)
    /\ (IsResponse(LastOut) /\ ~IsVerifyReq(LastReq) /\ op.name = "Check"
            /\ LastOut.body = "true")
          => ret = [status |-> IF TipIsDiscard(LastOut) THEN StatusDefiniteSpam
                               ELSE StatusProbableSpam,
                    err |-> NoErr]
    /\ (IsResponse(LastOut) /\ ~IsVerifyReq(LastReq)
            /\ (op.name # "Check" \/ LastOut.body # "true"))
          => ret.err = CallFailure(LastOut)

C15_WrappedHeaders ==
    (Called /\ wraps # <<>>)
        => /\ \A i \in DOMAIN sent : C15_Headers(sent[i].header)
           /\ C15_Result

\* One call sent the verify-key request and the comment-check request, both
\* with the decorator's User-Agent and the default Content-Type.
C15_Witness ==
    /\ wraps = <<("User-Agent" :> "A")>>
    /\ Len(sent) = 2
    /\ IsVerifyReq(sent[1]) /\ ~IsVerifyReq(sent[2])
    /\ \A i \in {1, 2} :
         /\ sent[i].header["User-Agent"] = "A"
         /\ sent[i].header["Content-Type"] = "application/x-www-form-urlencoded"
    /\ TipIsDiscard(LastOut)
    /\ ret.status = StatusDefiniteSpam

(***************************************************************************)
(* Vocabulary of C16.                                                      *)
(***************************************************************************)
\* The body the last operation expects from its own request.
ExpectedBody(b) ==
    IF op.name = "Check" THEN b \in {"true", "false"}
    ELSE b = "Thanks for making the web a better place."

\* The request at position i of the last call failed.
RequestFailed(i) ==
    IF IsVerifyReq(sent[i]) THEN ~IsValidAnswer(got[i])
    ELSE ~(IsResponse(got[i]) /\ got[i].code = 200 /\ ExpectedBody(got[i].body))

\* At most one verify-key request, first, at most one other request, and a
\* failed request ends the call with an error.
AtMostOneEach ==
    /\ Len(got) = Len(sent)
    /\ NumVerify(sent) <= 1
    /\ Cardinality(CallRequests) <= 1
    /\ \A i \in DOMAIN sent : IsVerifyReq(sent[i]) => i = 1
    /\ \A i \in DOMAIN sent :
         RequestFailed(i) => (i = Len(sent) /\ ret.err # NoErr)

\* http.NewRequest accepts the URL that carries the Checker's key.
KeyMakesURL == key # "bad key"

(***************************************************************************)
(* C16 as stated: one public call sends at most one verify-key request and *)
(* at most one comment-check / submit request, exactly one request in all  *)
(* when the Checker is already Verified, and a failing request ends the    *)
(* call with that failure.                                                 *)
(***************************************************************************)
C16_ExactlyOneWhenVerified ==
    Called => /\ AtMostOneEach
              /\ op.wasVerified => Len(sent) = 1

(***************************************************************************)
(* C16 amended: no public call retries.  One call sends at most one        *)
(* verify-key request, first, and at most one comment-check / submit       *)
(* request.  On a Verified Checker it sends exactly one request when a     *)
(* request can be built for the Checker's key and none when http.NewRequest*)
(* rejects the URL made from the key; the call then returns that error.    *)
(* A request that fails (client error, unreadable body, status other than  *)
(* 200, unexpected body) is the last request of its call and the call      *)
(* returns an error; the client receives no request other than those.      *)
(***************************************************************************)
C16_State ==
    Called
        => /\ AtMostOneEach
           /\ (op.wasVerified /\ KeyMakesURL) => Len(sent) = 1
           /\ (op.wasVerified /\ ~KeyMakesURL)
                 => (Len(sent) = 0 /\ ret.err.kind = "url.Error")
           /\ (ret.err # NoErr /\ ret.err.kind # "url.Error")
                 => (sent # <<>> /\ RequestFailed(Len(sent)))
           /\ ret.err.kind = "url.Error"
                 => (~KeyMakesURL /\ Cardinality(CallRequests) = 0)

C16_Step == ncalls' = ncalls + 1 => Len(log') = Len(log) + Len(sent')

C16_NoRetry == []C16_State /\ [][C16_Step]_vars

\* SubmitHam on a Verified Checker was answered 500: one request, one error.
C16_Witness ==
    /\ Called
    /\ op.wasVerified
    /\ op.name \in {"SubmitHam", "ReportHam"}
    /\ Len(sent) = 1
    /\ IsResponse(got[1]) /\ got[1].code = 500
    /\ ret.err # NoErr

(***************************************************************************)
(* Vocabulary of the properties about concurrent first use.                *)
(***************************************************************************)
\* The goroutines whose read of ch.verified returned false.
SawUnverified == {p \in Procs : procs[p].pc # "idle" /\ ~procs[p].saw}

\* Every goroutine read ch.verified while it was false in memory: the calls
\* all began before any of them had set the flag.
Raced ==
    \A p \in Procs :
        procs[p].pc # "idle" /\ ~procs[p].saw /\ ~procs[p].mem

AllDone == \A p \in Procs : procs[p].pc = "done"

(***************************************************************************)
(* C17: concurrent calls on a not yet verified Checker can send more than  *)
(* one verify-key request, because the read of the flag and the write      *)
(* ch.verified = true are separate steps: a verify-key request is sent     *)
(* exactly by a call whose read of the flag returned false, once per such  *)
(* call, however many of them read it before the first one writes it, and  *)
(* also when every one of those requests is answered "valid".              *)
(***************************************************************************)
C17_State ==
    /\ \A p \in Procs :
         procs[p].pc \in {"verify", "verifying", "set"} => ~procs[p].saw
    /\ trace.verifyReqs <= Cardinality(SawUnverified)
    /\ trace.validAnswers <= trace.verifyReqs
    /\ AllDone => trace.verifyReqs = Cardinality(SawUnverified)

C17_Step ==
    trace'.verifyReqs > trace.verifyReqs
        => \E p \in Procs : /\ procs[p].pc = "verify"
                            /\ ~procs[p].saw
                            /\ procs'[p].pc = "verifying"

C17_RaceVerifiesAgain == []C17_State /\ [][C17_Step]_vars

\* Two calls read the flag while it was false; both sent a verify-key
\* request and both requests were answered "valid".
C17_Witness ==
    /\ Raced
    /\ trace.verifyReqs >= 2
    /\ trace.validAnswers >= 2

C18_State ==
    /\ trace.ungated = 0
    /\ trace.callReqs > 0 => trace.validAnswers > 0
    /\ verified => trace.validAnswers > 0
    /\ \A p \in Procs :
         procs[p].pc \in {"call", "calling"} => trace.validAnswers > 0

C18_Step == trace'.callReqs > trace.callReqs => trace.validAnswers > 0

FormOf ==
    IF api.TestMode /\ Get(acall.params, "is_test") = ""
    THEN merge(acall.params, "is_test" :> "1")
    ELSE acall.params

\* The last call logged to Output and every write succeeded.
LoggedAll == acall.n >= 1 /\ api.Output /\ acall.f = 0 /\ acall.writes > 0

\* Write number i of the last call was made and failed.
WriteFailed(i) == acall.n >= 1 /\ acall.f = i /\ acall.writes >= i

(***************************************************************************)
(* C19: when Output is set and every write to it succeeds, the default     *)
(* client receives the request body that was encoded (as it does without   *)
(* logging), and the call reads the response body in full after it was     *)
(* logged: execute returns the response's body and headers, or the read    *)
(* error of a body that cannot be read.                                    *)
(***************************************************************************)
C19_BodiesIntact ==
    LoggedAll =>
        /\ Len(acall.sent) = 1
        /\ acall.sent[1].body = Encode(FormOf)
        /\ acall.o.kind = "resp" =>
              /\ acall.result = acall.o.body
              /\ acall.header = acall.o.header
              /\ acall.text[2] = "POST " \o acall.sent[1].url \o " "
                                    \o Encode(FormOf)
              /\ acall.text[4] = StatusLine(acall.o.code) \o " "
                                    \o acall.o.body
        /\ acall.o.kind = "readerr" => acall.err = ReadErr.err
        /\ acall.o.kind = "doerr" => acall.err = DoErr.err

\* A comment check with Output set logged the request and the response and
\* returned the response's verdict.
C19_Witness ==
    /\ LoggedAll
    /\ acall.name = "CheckComment"
    /\ Len(acall.text) = 4
    /\ acall.sent[1].body = "blog=http%3A%2F%2Fexample.com&user_ip=127.0.0.1"
    /\ acall.result = "true"
    /\ acall.status = StatusProbableSpam

(***************************************************************************)
(* C20: a write to Output that fails while the request is logged makes the *)
(* call return that error with no request sent; one that fails while the   *)
(* response is logged makes the call return that error in place of the     *)
(* response's result: VerifyKey stores no key, CheckComment returns        *)
(* StatusUnknown.                                                          *)
(***************************************************************************)
C20_LogFailurePropagates ==
    /\ WriteFailed(1) \/ WriteFailed(2) =>
          /\ acall.err = WriteErr
          /\ acall.sent = <<>>
          /\ acall.status = StatusUnknown
          /\ api.key = acall.held
    /\ WriteFailed(3) \/ WriteFailed(4) =>
          /\ acall.err = WriteErr
          /\ Len(acall.sent) = 1
          /\ acall.result = ""
          /\ acall.status = StatusUnknown
          /\ api.key = acall.held

\* The response to a VerifyKey was "valid", the write of the logged response
\* failed, and the API holds no key.
C20_Witness ==
    /\ WriteFailed(4)
    /\ acall.name = "VerifyKey"
    /\ acall.o.kind = "resp" /\ acall.o.body = "valid"
    /\ acall.err = WriteErr
    /\ api.key = ""

\* The last API call was a CheckComment, SubmitSpam or SubmitHam.
GatedCall ==
    acall.n >= 1 /\ acall.name \in {"CheckComment", "SubmitSpam", "SubmitHam"}

\* The API method of the last call.
MethodOf ==
    CASE acall.name = "VerifyKey"    -> "verify-key"
      [] acall.name = "CheckComment" -> "comment-check"
      [] acall.name = "SubmitSpam"   -> "submit-spam"
      [] OTHER                       -> "submit-ham"

\* The URL of the last call's method on the host qualified with key k.
QualifiedURL(k) == "https://" \o k \o ".rest.akismet.com/1.1/" \o MethodOf

\* The last call was refused for want of a verified key.
WasRefused ==
    /\ acall.err = errKeyNotVerified
    /\ acall.status = StatusUnknown
    /\ acall.sent = <<>>
    /\ acall.writes = 0

C22_TestFlagNoSideEffect ==
    (acall.n >= 1 /\ api.TestMode) =>
        /\ acall.after = acall.params
        /\ \A i \in DOMAIN acall.sent :
              acall.sent[i].body =
                 IF "is_test" \in DOMAIN acall.params
                 THEN Encode(acall.params)
                 ELSE Encode(merge(acall.params, "is_test" :> "1"))

\* A CheckComment in test mode whose caller passed is_test with the empty
\* string: is_test=1 was sent and the caller's entry is gone.
C22_Witness ==
    /\ acall.n >= 1 /\ api.TestMode
    /\ acall.name = "CheckComment"
    /\ acall.params = ("is_test" :> "" @@ "user_ip" :> "127.0.0.1")
    /\ Len(acall.sent) = 1
    /\ acall.sent[1].body = "is_test=1&user_ip=127.0.0.1"
    /\ acall.after = ("user_ip" :> "127.0.0.1")

(***************************************************************************)
(* C23: reading the string produced by encodeParams(m) back with           *)
(* url.ParseQuery succeeds and gives exactly the pairs of m whose value is *)
(* not empty, each key once with the value it has in m; the pairs with an  *)
(* empty value are not in the string.                                      *)
(***************************************************************************)
C23_RoundTrip ==
    enc.pc = "decoded" =>
        /\ enc.back.ok
        /\ DOMAIN enc.back.vals = {k \in DOMAIN enc.m : enc.m[k] # <<>>}
        /\ \A k \in DOMAIN enc.back.vals : enc.back.vals[k] = <<enc.m[k]>>

\* A map with an empty value and a value made of separators, under a key
\* with separators in it: one pair was encoded and read back.
C23_Witness ==
    /\ enc.pc = "decoded"
    /\ enc.m = (<<"a">> :> <<>> @@ <<"b", "&", "=">> :> <<"&", "+">>)
    /\ enc.s = <<"b", "%", "2", "6", "%", "3", "D", "=",
                 "%", "2", "6", "%", "2", "B">>
    /\ DOMAIN enc.back.vals = {<<"b", "&", "=">>}

\* The last operation was a constructor of Comment.
Constructed == acall.n >= 1 /\ acall.name \in ConstructorNames

\* The constructor of the last operation.
ConstructorOf == CHOOSE c \in Constructors : c.name = acall.name

(***************************************************************************)
(* C24: a constructor of Comment sends one verify-key request with the key *)
(* and the site before it returns.  It returns a nil Comment and a non-nil *)
(* error unless the answer was "valid"; then it returns a nil error and a  *)
(* Comment whose parameters are exactly blog = site and comment_type =     *)
(* "comment" and whose API holds the key, with the constructor's test mode *)
(* and user agent.                                                         *)
(***************************************************************************)
C24_ConstructorVerifies ==
    Constructed =>
        /\ Len(acall.sent) = 1
        /\ acall.sent[1].url = "https://rest.akismet.com/1.1/verify-key"
        /\ acall.sent[1].body =
              Encode(IF ConstructorOf.testMode
                     THEN ("blog" :> acall.site @@ "key" :> acall.key
                           @@ "is_test" :> "1")
                     ELSE ("blog" :> acall.site @@ "key" :> acall.key))
        /\ IF acall.o.kind = "resp" /\ acall.o.body = "valid"
           THEN /\ acall.err = NoErr
                /\ comment.made
                /\ comment.params = ("blog" :> acall.site
                                     @@ "comment_type" :> "comment")
                /\ api.key = acall.key
                /\ api.TestMode = ConstructorOf.testMode
                /\ api.UserAgent = IF ConstructorOf.ua THEN "MyApp/1.0" ELSE ""
           ELSE /\ acall.err # NoErr
                /\ comment = NoComment

\* NewTestCommentUA returned a Comment for a key that was answered "valid".
C24_Witness ==
    /\ Constructed
    /\ acall.name = "NewTestCommentUA"
    /\ acall.err = NoErr
    /\ comment.made
    /\ comment.params = ("blog" :> "http://example.com"
                         @@ "comment_type" :> "comment")
    /\ api.key = "123456789abc"
    /\ api.TestMode

EndpointURLs ==
    {"https://" \o h \o "/1.1/" \o c :
        h \in {"rest.akismet.com", escapeHost(key \o ".rest.akismet.com")},
        c \in {"verify-key", "comment-check", "submit-ham", "submit-spam"}}

(***************************************************************************)
(* C26: in every sequence of Check, SubmitHam and SubmitSpam calls,        *)
(* endpoint is called with APIVerifyKey, APICheckComment, APISubmitHam or  *)
(* APISubmitSpam only: every URL it returned, whether a request was sent   *)
(* to it or http.NewRequest rejected it, is the URL of one of the four     *)
(* commands and never that of the panic branch.                            *)
(***************************************************************************)
C26_EndpointNeverPanics ==
    rev = "A" =>
        /\ \A i \in DOMAIN log : log[i].url \in EndpointURLs
        /\ ret.err.kind = "url.Error" => ret.err.URL \in EndpointURLs

\* SubmitHam on an unverified Checker called endpoint twice: for verify-key
\* and for submit-ham.
C26_Witness ==
    /\ rev = "A"
    /\ op.name = "SubmitHam"
    /\ Len(sent) = 2
    /\ sent[1].url = "https://rest.akismet.com/1.1/verify-key"
    /\ sent[2].url = "https://123456789abc.rest.akismet.com/1.1/submit-ham"

(***************************************************************************)
(* C27: after a call of Check, SubmitHam / ReportHam or SubmitSpam /       *)
(* ReportSpam, whether it succeeded or failed, the caller's values map     *)
(* has the keys and values it had before the call.                         *)
(***************************************************************************)
C27_ValuesUntouched == Called => op.after = op.values

\* A call was given a map without a site: the request carried the site and
\* the caller's entry, the caller's map holds its own entry only.
C27_Witness ==
    /\ Called
    /\ op.values = ("user_ip" :> "127.0.0.1")
    /\ sent # <<>> /\ ~IsVerifyReq(LastReq)
    /\ LastReq.body = "blog=http%3A%2F%2Fexample.com&user_ip=127.0.0.1"
    /\ op.after = ("user_ip" :> "127.0.0.1")

\* The form body made of the Checker's own credentials: the pairs blog and
\* key, in that order, without a pair for an empty one.
CredentialsBody ==
    LET b == IF site = "" THEN "" ELSE "blog=" \o Escaped(site)
        k == CASE key = ""        -> ""
               [] key = "bad key" -> "key=bad+key"
               [] OTHER           -> "key=" \o key
    IN  IF b = "" THEN k
        ELSE IF k = "" THEN b
        ELSE b \o "&" \o k

(***************************************************************************)
(* C28: the body of every verify-key request is made of the Checker's own  *)
(* key and site only, whatever values were passed to the public call that  *)
(* triggered the verification.                                             *)
(***************************************************************************)
C28_VerifyFromCredentials ==
    \A i \in DOMAIN sent :
        IsVerifyReq(sent[i]) => sent[i].body = CredentialsBody

\* A call that was given a key entry of its own triggered the verification:
\* the verify-key request carries the Checker's key, the next request the
\* caller's.
C28_Witness ==
    /\ Called
    /\ op.values = ("key" :> "otherkey")
    /\ Len(sent) = 2
    /\ IsVerifyReq(sent[1])
    /\ sent[1].body = "blog=http%3A%2F%2Fexample.com&key=123456789abc"
    /\ sent[2].body = "blog=http%3A%2F%2Fexample.com&key=otherkey"

\* The caller's values hold blog with the empty string.
EmptyBlogGiven == "blog" \in DOMAIN op.values /\ op.values["blog"] = ""

(***************************************************************************)
(* C29: when the caller's values hold blog with the empty string, the      *)
(* comment-check / submit request carries no blog parameter, whatever the  *)
(* configured site: its body is made of the caller's other pairs only.     *)
(***************************************************************************)
C29_EmptyBlogDropsSite ==
    (Called /\ EmptyBlogGiven) =>
        \A i \in CallRequests : sent[i].body = RestAlone(op.values)

\* A Checker with a site was called with blog = "": the verify-key request
\* carried the site, the request that followed carried nothing.
C29_Witness ==
    /\ Called /\ EmptyBlogGiven
    /\ site = "http://example.com"
    /\ Len(sent) = 2
    /\ sent[1].body = "blog=http%3A%2F%2Fexample.com&key=123456789abc"
    /\ ~IsVerifyReq(sent[2])
    /\ sent[2].body = ""

\* The last API call was a VerifyKey.
Verifying == acall.n >= 1 /\ acall.name = "VerifyKey"

\* The response to the last API call had the body "valid".
AnsweredValid == acall.o.kind = "resp" /\ acall.o.body = "valid"

====
